---------------------------- MODULE Spec2Model ----------------------------
(***************************************************************************)
(* A model of the sbfnj compiler pipeline (src/src/*.rs):                  *)
(*   o1::compile   bytes -> flat, jump-resolved instructions (folding)     *)
(*   o1::main      the jump-based interpreter over the flat instructions   *)
(*   o2::compile   flat instructions -> statement tree                     *)
(*   o2::optimize  the loop classifier                                     *)
(*   o2::Interpreter  the tree-walking interpreter                         *)
(*   llvm::main    the native code generator's entry point                 *)
(* Scope: args.text is false (the --text branches only print the IR).      *)
(* Indices into Vec values are kept 0-based as in the source; a TLA+       *)
(* sequence s is read at s[i + 1].                                         *)
(***************************************************************************)
EXTENDS Integers, Sequences, FiniteSets, TLC

\* ------------------------------------------------------------------ bounds
\* Longest source file enumerated by the pipeline specifications.
MaxSrcLen == 4
\* Longest source file enumerated by the assembler-only specification.
MaxAsmLen == 5
\* Longest standard-input stream.
MaxInputLen == 2
\* Most interpreter steps followed in one run.
MaxSteps == 24
\* Largest initial values of cell0 and cell1 in the "move" scenario.
MaxA == 2
MaxB == 3
\* Most instructions of the generated executable followed in one run.
MaxNatSteps == 180
\* Longest source file enumerated by the specification that runs the executable.
MaxNatLen == 3
\* Longest run of '+' or '-' in the sources of the cell-arithmetic specification.
MaxRun == 257
\* Longest source file enumerated by the specification that runs o0::main.
MaxO0Len == 4
\* Most turns of an interpreter loop followed in one run of that specification.
MaxO0Steps == 160
\* Statements in a loop body handed to symbolic_execution.
MaxBodyLen == 4

\* ------------------------------------------------------- program constants
\* vec![0u8; 30000]
TapeLen == 30000
\* u8 cells
CellMod == 256

\* ------------------------------------------------------------ source bytes
\* The eight meaningful bytes; "x" stands for every other byte value.
Meaningful == {">", "<", "+", "-", "[", "]", ".", ","}
OtherByte == "x"

SeqsUpTo(S, n) == UNION {[1..k -> S] : k \in 0..n}

Rep(c, n) == [i \in 1..n |-> c]

\* "+"^a ">" "+"^b "<" "[->+<]": the spec's end-to-end scenario 1 is a=2, b=3.
MoveProg(a, b) ==
    Rep("+", a) \o <<">">> \o Rep("+", b) \o <<"<">> \o <<"[", "-", ">", "+", "<", "]">>

\* Longer programs in which loops iterate, print, read and nest.
Scenarios ==
    {MoveProg(a, b) : a \in 0..MaxA, b \in 0..MaxB}
    \cup { <<"+", "[", ".", "-", "]">>,
           <<",", "[", ".", ",", "]">>,
           <<"+", "+", "[", ">", "+", "<", "-", "]", ">", ".">>,
           <<"+", "[", "[", "-", "]", "]">>,
           <<"+", "[", ">", "+", "[", "-", "]", "<", "-", "]">>,
           <<"-", "[", "+", ".", "]">>,
           <<"+", "[", "+", "-", "]">>,
           <<"+", "[", ">", "[", "+", "]", "<", "-", "]">>,
           <<"+", "[", "[", "+", "-", "]", "]">> }

\* ------------------------------------------------------------- o1.rs types
InstPtrInc(n) == [op |-> "PtrInc", arg |-> n]
InstValInc(n) == [op |-> "ValInc", arg |-> n]
InstLoopStart(t) == [op |-> "LoopStart", arg |-> t]
InstLoopEnd(t) == [op |-> "LoopEnd", arg |-> t]
InstOutput == [op |-> "Output", arg |-> 0]
InstInput == [op |-> "Input", arg |-> 0]

StateNone == [tag |-> "None", n |-> 0]
PtrArithm(n) == [tag |-> "PtrArithm", n |-> n]
ValArithm(n) == [tag |-> "ValArithm", n |-> n]

VARIABLES
    mode,      \* the entry point main.rs dispatches to: "o1", "o2", "llvm"
               \* ("rt": the round-trip comparison of the two interpreters;
               \* "nat": llvm::main through to the run of the executable;
               \* "eq": o0::main next to o1::main on the same file and input;
               \* "sym": optimize_loop's call of symbolic_execution, step by step)
    file,      \* the bytes of the source file
    pos,       \* o1::compile: how many bytes the `for c in bytes` loop has taken
    cprog,     \* o1::compile: its local `prog`
    state,     \* o1::compile: its local `state`
    stack,     \* o1::compile: its local `stack`
    pc,        \* where the entry point is
    status,    \* how the process ended ("running" until it has)
    prog,      \* the caller's binding of o1::compile's Ok value
    stmts,     \* the caller's binding of o2::compile's value
    opt,       \* o2::main: the binding of optimize's value
    stdin,     \* the bytes on standard input when an interpreter locks it
    steps,     \* interpreter steps taken (bounded by MaxSteps)
    fpc,       \* o1::main: pc
    fmem,      \* o1::main: mem (the non-zero cells)
    fptr,      \* o1::main: ptr
    finput,    \* o1::main: what `input` has left
    fout,      \* the bytes o1::main's process wrote to standard output
    frun,      \* o1::main's interpreter loop: "idle", "running", "done", "panic"
    fnin,      \* Input instructions o1::main has executed
    tpath,     \* Interpreter: the Loop statements whose interpret_rec calls are open
    tidx,      \* Interpreter: position of the innermost `for stmt in prog`
    tmem,      \* Interpreter: memory (the non-zero cells)
    tptr,      \* Interpreter: ptr
    tinput,    \* Interpreter: what `input` has left
    tout,      \* the bytes o2::main's process wrote to standard output
    trun,      \* Interpreter: "idle", "running", "done", "panic"
    tnin,      \* Input statements the Interpreter has executed
    tprog,     \* Interpreter: prog
    ir,        \* llvm::main: the module Compiler::compile returned
    nblk,      \* the executable: the block of `main` it is in
    nidx,      \* the executable: the next instruction of that block
    nregs,     \* the executable: the SSA values computed so far
    nslots,    \* the executable: the contents of the allocas `ptr` and `memory`
    nmem,      \* the executable: the calloc'ed tape (the non-zero cells)
    ninput,    \* the executable: what standard input has left
    nout,      \* the bytes the executable wrote to standard output
    nrun,      \* the executable: "idle", "running", "done", "crash"
    nnin,      \* getchar calls the executable has made
    nsteps,    \* instructions the executable has executed (bounded by MaxNatSteps)
    zpc,       \* o0::main: pc
    zmem,      \* o0::main: mem (the non-zero cells)
    zptr,      \* o0::main: ptr
    zinput,    \* o0::main: what `input` has left
    zout,      \* the bytes o0::main's process wrote to standard output
    zrun,      \* o0::main's loop: "idle", "running", "done", "panic", "panic_pc"
    zsteps,    \* turns of o0::main's loop taken (bounded by MaxO0Steps)
    sbody,     \* symbolic_execution: its argument `prog`, the body of a loop
    sidx,      \* symbolic_execution: statements its `for stmt in prog` has taken
    sptr,      \* symbolic_execution: ptr_delta
    smap,      \* symbolic_execution: memory_delta
    srun       \* symbolic_execution: "idle", "running", "ok", "err", "todo", then
               \* what optimize_loop made of it: "kept", "reported", "diverge"

compvars == <<file, pos, cprog, state, stack, prog>>
flatvars == <<fpc, fmem, fptr, finput, fout, frun, fnin>>
treevars == <<tpath, tidx, tmem, tptr, tinput, tout, trun, tnin, tprog>>
natvars == <<nblk, nidx, nregs, nslots, nmem, ninput, nout, nrun, nnin, nsteps>>
o0vars == <<zpc, zmem, zptr, zinput, zout, zrun, zsteps>>
symvars == <<sbody, sidx, sptr, smap, srun>>
vars == <<mode, pc, status, stmts, opt, stdin, steps, ir, compvars, flatvars, treevars, natvars,
         o0vars, symvars>>

\* The caller holds no instruction sequence.
NoProg == <<[op |-> "none", arg |-> 0]>>

\* ---------------------------------------------------------- o1::compile
\* Mutant of PtrSym: a symbol that extends a run restarts the count.
PtrSym_Restart(p, st, d) ==
    CASE st.tag = "ValArithm" -> [prog |-> Append(p, InstValInc(st.n)), state |-> PtrArithm(d)]
      [] OTHER -> [prog |-> p, state |-> PtrArithm(d)]

\* b'>' (d = 1) and b'<' (d = -1)
PtrSym(p, st, d) ==
    CASE st.tag = "PtrArithm" -> [prog |-> p, state |-> PtrArithm(st.n + d)]
      [] st.tag = "ValArithm" -> [prog |-> Append(p, InstValInc(st.n)), state |-> PtrArithm(d)]
      [] OTHER -> [prog |-> p, state |-> PtrArithm(d)]

\* b'+' (d = 1) and b'-' (d = -1)
ValSym(p, st, d) ==
    CASE st.tag = "ValArithm" -> [prog |-> p, state |-> ValArithm(st.n + d)]
      [] st.tag = "PtrArithm" -> [prog |-> Append(p, InstPtrInc(st.n)), state |-> ValArithm(d)]
      [] OTHER -> [prog |-> p, state |-> ValArithm(d)]

\* The pending run is pushed: the `match state` of the bracket/IO arm and of the
\* end of compile.
Flush(p, st) ==
    CASE st.tag = "ValArithm" -> Append(p, InstValInc(st.n))
      [] st.tag = "PtrArithm" -> Append(p, InstPtrInc(st.n))
      [] OTHER -> p

\* Mutant of CloseLoop: the back jump goes to the LoopStart itself.
CloseLoop_ToStart(p, start) ==
    LET p1 == Append(p, InstLoopEnd(start))
    IN  [p1 EXCEPT ![start + 1] = InstLoopStart(Len(p1))]

\* b']' with a non-empty stack: pop, push LoopEnd(start + 1), patch prog[start].
CloseLoop(p, start) ==
    LET p1 == Append(p, InstLoopEnd(start + 1))
    IN  [p1 EXCEPT ![start + 1] = InstLoopStart(Len(p1))]

\* Mutant of CloseError: the message of the other error.
CloseError_Swapped == "err_open"

\* eyre!("Orphan ']' should be matched with '['")
CloseError == "err_close"

\* eyre!("Orphan '[' should be matched with ']'")
OpenError == "err_open"

\* stack.pop() is None: the orphan-']' error.
OrphanClose(stk) == stk = <<>>

\* Mutant of OrphanOpen: the stack is not looked at after the loop.
OrphanOpen_Never(stk) == FALSE

\* !stack.is_empty() after the loop: the orphan-'[' error.
OrphanOpen(stk) == stk # <<>>

\* Mutant of OtherSym: a byte that is none of the eight symbols ends the run.
OtherSym_EndsRun(p, st) == [prog |-> Flush(p, st), state |-> StateNone]

\* `_ => {}`: any other byte leaves `prog` and `state` as they are.
OtherSym(p, st) == [prog |-> p, state |-> st]

\* One iteration of `for c in bytes`.
CompileByte ==
    /\ pc = "compile"
    /\ pos < Len(file)
    /\ LET c == file[pos + 1]
           flushed == Flush(cprog, state)
       IN  CASE c \in {">", "<"} ->
                  LET r == PtrSym(cprog, state, IF c = ">" THEN 1 ELSE -1)
                  IN  /\ cprog' = r.prog
                      /\ state' = r.state
                      /\ UNCHANGED <<stack, pc, status>>
             [] c \in {"+", "-"} ->
                  LET r == ValSym(cprog, state, IF c = "+" THEN 1 ELSE -1)
                  IN  /\ cprog' = r.prog
                      /\ state' = r.state
                      /\ UNCHANGED <<stack, pc, status>>
             [] c = "[" ->
                  /\ state' = StateNone
                  /\ stack' = Append(stack, Len(flushed))
                  /\ cprog' = Append(flushed, InstLoopStart(0))
                  /\ UNCHANGED <<pc, status>>
             [] c = "]" ->
                  IF OrphanClose(stack)
                  THEN /\ state' = StateNone
                       /\ cprog' = flushed
                       /\ status' = CloseError
                       /\ pc' = "exit"
                       /\ UNCHANGED stack
                  ELSE /\ state' = StateNone
                       /\ stack' = SubSeq(stack, 1, Len(stack) - 1)
                       /\ cprog' = CloseLoop(flushed, stack[Len(stack)])
                       /\ UNCHANGED <<pc, status>>
             [] c = "." ->
                  /\ state' = StateNone
                  /\ cprog' = Append(flushed, InstOutput)
                  /\ UNCHANGED <<stack, pc, status>>
             [] c = "," ->
                  /\ state' = StateNone
                  /\ cprog' = Append(flushed, InstInput)
                  /\ UNCHANGED <<stack, pc, status>>
             [] OTHER ->
                  LET r == OtherSym(cprog, state)
                  IN  /\ cprog' = r.prog
                      /\ state' = r.state
                      /\ UNCHANGED <<stack, pc, status>>
    /\ pos' = pos + 1
    /\ UNCHANGED <<symvars, o0vars, natvars, mode, file, prog, stmts, opt, stdin, steps, ir, flatvars, treevars>>

\* After the loop: the orphan-'[' check, the last flush, Ok(prog).
CompileEnd ==
    /\ pc = "compile"
    /\ pos = Len(file)
    /\ IF OrphanOpen(stack)
       THEN /\ status' = OpenError
            /\ pc' = "exit"
            /\ UNCHANGED <<cprog, state, prog>>
       ELSE /\ cprog' = Flush(cprog, state)
            /\ prog' = Flush(cprog, state)
            /\ pc' = "compiled"
            /\ UNCHANGED <<state, status>>
    /\ UNCHANGED <<symvars, o0vars, natvars, mode, file, pos, stack, stmts, opt, stdin, steps, ir, flatvars, treevars>>

\* ------------------------------------------------------------- o2.rs types
StmtPtrInc(n) == [op |-> "PtrInc", n |-> n, body |-> <<>>]
StmtValInc(n) == [op |-> "ValInc", n |-> n, body |-> <<>>]
StmtLoop(b) == [op |-> "Loop", n |-> 0, body |-> b]
StmtOutput == [op |-> "Output", n |-> 0, body |-> <<>>]
StmtInput == [op |-> "Input", n |-> 0, body |-> <<>>]

\* No statement tree has been built.
NoTree == <<[op |-> "none", n |-> 0, body |-> <<>>]>>

RECURSIVE pure(_)
pure(stmt) ==
    CASE stmt.op \in {"PtrInc", "ValInc"} -> TRUE
      [] stmt.op = "Loop" -> \A i \in 1..Len(stmt.body) : pure(stmt.body[i])
      [] OTHER -> FALSE

\* ---------------------------------------------------------- o2::compile
\* compile_rec over the iterator: `i` instructions are taken already, `acc` is the
\* local `prog`; the value is the Vec returned and how far the iterator then is.
RECURSIVE compile_rec(_, _, _)
\* Mutant of compile_rec: a LoopEnd is passed over instead of ending the call.
compile_rec_NoReturn(insts, i, acc) ==
    IF i >= Len(insts) THEN [prog |-> acc, next |-> i]
    ELSE LET inst == insts[i + 1]
         IN  CASE inst.op = "PtrInc" ->
                    compile_rec(insts, i + 1, Append(acc, StmtPtrInc(inst.arg)))
               [] inst.op = "ValInc" ->
                    compile_rec(insts, i + 1, Append(acc, StmtValInc(inst.arg)))
               [] inst.op = "LoopStart" ->
                    LET r == compile_rec(insts, i + 1, <<>>)
                    IN  compile_rec(insts, r.next, Append(acc, StmtLoop(r.prog)))
               [] inst.op = "LoopEnd" -> compile_rec(insts, i + 1, acc)
               [] inst.op = "Output" -> compile_rec(insts, i + 1, Append(acc, StmtOutput))
               [] OTHER -> compile_rec(insts, i + 1, Append(acc, StmtInput))

compile_rec(insts, i, acc) ==
    IF i >= Len(insts) THEN [prog |-> acc, next |-> i]
    ELSE LET inst == insts[i + 1]
         IN  CASE inst.op = "PtrInc" ->
                    compile_rec(insts, i + 1, Append(acc, StmtPtrInc(inst.arg)))
               [] inst.op = "ValInc" ->
                    compile_rec(insts, i + 1, Append(acc, StmtValInc(inst.arg)))
               [] inst.op = "LoopStart" ->
                    LET r == compile_rec(insts, i + 1, <<>>)
                    IN  compile_rec(insts, r.next, Append(acc, StmtLoop(r.prog)))
               [] inst.op = "LoopEnd" -> [prog |-> acc, next |-> i + 1]
               [] inst.op = "Output" -> compile_rec(insts, i + 1, Append(acc, StmtOutput))
               [] OTHER -> compile_rec(insts, i + 1, Append(acc, StmtInput))

compile(insts) == compile_rec(insts, 0, <<>>).prog

\* ------------------------------------------------------------ SymExVal
I32Max == 2147483647

\* i32::wrapping_add
wrapping_add(a, b) ==
    IF b > 0 /\ a > I32Max - b THEN (a - I32Max - 1) + (b - I32Max - 1)
    ELSE IF b < 0 /\ a < (-I32Max - 1) - b THEN (a + I32Max + 1) + (b + I32Max + 1)
    ELSE a + b

Const(v) == [tag |-> "Const", v |-> v, l |-> <<>>, r |-> <<>>]
Cell(n) == [tag |-> "Cell", v |-> n, l |-> <<>>, r |-> <<>>]
Add(l, r) == [tag |-> "Add", v |-> 0, l |-> l, r |-> r]
\* todo!() was reached: the process panics.
Todo == [tag |-> "todo", v |-> 0, l |-> <<>>, r |-> <<>>]

RECURSIVE simplify(_)
simplify(self) ==
    IF self.tag # "Add" THEN self
    ELSE LET lhs == simplify(self.l)
             rhs == simplify(self.r)
         IN  CASE lhs.tag = "todo" \/ rhs.tag = "todo" -> Todo
               [] lhs.tag = "Const" /\ rhs.tag = "Const" -> Const(wrapping_add(lhs.v, rhs.v))
               [] lhs.tag = "Cell" /\ rhs.tag = "Const" -> Todo
               [] lhs.tag = "Add" /\ rhs.tag = "Const" ->
                    IF lhs.r.tag = "Const"
                    THEN Add(lhs.l, Const(wrapping_add(lhs.r.v, rhs.v)))
                    ELSE Add(Add(lhs.l, lhs.r), Const(rhs.v))
               [] OTHER -> Todo

\* impl Add and AddAssign for SymExVal
add(self, rhs) == simplify(Add(self, rhs))

\* ------------------------------------------------- o2::symbolic_execution
\* Mutant of Adjust: a fresh offset starts from the cell's symbolic value.
Adjust_FromCell(md, pd, n) ==
    IF pd \in DOMAIN md
    THEN [md EXCEPT ![pd] = add(md[pd], Const(n))]
    ELSE [k \in DOMAIN md \cup {pd} |-> IF k = pd THEN add(Cell(pd), Const(n)) ELSE md[k]]

\* The ValInc arm: memory_delta.get_mut(&ptr_delta), += or insert.
Adjust(md, pd, n) ==
    IF pd \in DOMAIN md
    THEN [md EXCEPT ![pd] = add(md[pd], Const(n))]
    ELSE [k \in DOMAIN md \cup {pd} |-> IF k = pd THEN Const(n) ELSE md[k]]

\* The `for stmt in prog` loop from statement i on.
RECURSIVE symex_from(_, _, _, _)
symex_from(body, i, pd, md) ==
    IF i >= Len(body) THEN [ok |-> TRUE, ptr_delta |-> pd, memory_delta |-> md]
    ELSE LET stmt == body[i + 1]
         IN  CASE stmt.op = "PtrInc" -> symex_from(body, i + 1, pd + stmt.n, md)
               [] stmt.op = "ValInc" -> symex_from(body, i + 1, pd, Adjust(md, pd, stmt.n))
               [] OTHER -> [ok |-> FALSE, ptr_delta |-> pd, memory_delta |-> md]

symbolic_execution(body) == symex_from(body, 0, 0, <<>>)

\* ------------------------------------------------------- Debug formatting
RECURSIVE Digits(_)
Digits(n) == IF n < 10 THEN <<48 + n>> ELSE Digits(n \div 10) \o <<48 + (n % 10)>>

\* {n} of an i32; the magnitude of i32::MIN is no i32, its last digit is an 8
FmtI32(n) ==
    IF n = -I32Max - 1 THEN <<45>> \o Digits(I32Max \div 10) \o <<56>>
    ELSE IF n < 0 THEN <<45>> \o Digits(-n)
    ELSE Digits(n)

RECURSIVE FmtStmt(_)
RECURSIVE FmtVec(_)
\* {:?} of a Stmt
FmtStmt(stmt) ==
    CASE stmt.op = "PtrInc" -> <<80, 116, 114, 73, 110, 99, 40>> \o FmtI32(stmt.n) \o <<41>>
      [] stmt.op = "ValInc" -> <<86, 97, 108, 73, 110, 99, 40>> \o FmtI32(stmt.n) \o <<41>>
      [] stmt.op = "Loop" -> <<76, 111, 111, 112, 40>> \o FmtVec(stmt.body) \o <<41>>
      [] stmt.op = "Output" -> <<79, 117, 116, 112, 117, 116>>
      [] OTHER -> <<73, 110, 112, 117, 116>>

RECURSIVE FmtItems(_, _)
FmtItems(v, i) ==
    IF i > Len(v) THEN <<>>
    ELSE (IF i > 1 THEN <<44, 32>> ELSE <<>>) \o FmtStmt(v[i]) \o FmtItems(v, i + 1)

\* {:?} of a Vec<Stmt>
FmtVec(v) == <<91>> \o FmtItems(v, 1) \o <<93>>

\* println!("step = {step}, body = {body:?}")
PrintStep(step, body) ==
    <<115, 116, 101, 112, 32, 61, 32>> \o FmtI32(step)
    \o <<44, 32, 98, 111, 100, 121, 32, 61, 32>> \o FmtVec(body) \o <<10>>

\* ---------------------------------------------------------- o2::optimize
\* Mutant of optimize_loop: a constant step other than 1 is fatal as well.
optimize_loop_StepFatal(body) ==
    LET info == symbolic_execution(body)
        md == info.memory_delta
        keep == [panic |-> FALSE, stmts |-> body, out |-> <<>>]
    IN  IF ~info.ok THEN keep
        ELSE IF info.ptr_delta # 0 THEN keep
        ELSE IF ~(0 \in DOMAIN md /\ md[0].tag = "Const") THEN keep
        ELSE IF md[0].v # 1 THEN [panic |-> TRUE, stmts |-> <<>>, out |-> <<>>]
        ELSE [panic |-> FALSE, stmts |-> body, out |-> PrintStep(md[0].v, body)]

\* The value: what replaces the loop in the parent sequence, what was printed,
\* and whether unimplemented!() was reached.
optimize_loop(body) ==
    LET info == symbolic_execution(body)
        md == info.memory_delta
        keep == [panic |-> FALSE, stmts |-> body, out |-> <<>>]
    IN  IF ~info.ok THEN keep
        ELSE IF info.ptr_delta # 0 THEN keep
        ELSE IF 0 \in DOMAIN md /\ md[0].tag = "Const" /\ md[0].v = 0
        THEN [panic |-> TRUE, stmts |-> <<>>, out |-> <<>>]
        ELSE IF ~(0 \in DOMAIN md /\ md[0].tag = "Const") THEN keep
        ELSE IF md[0].v # 1 THEN keep
        ELSE [panic |-> FALSE, stmts |-> body, out |-> PrintStep(md[0].v, body)]

\* flat_map(..).collect() from statement i on: `acc` is what is collected so far,
\* `out` what has been printed so far.
RECURSIVE optimize_from(_, _, _, _)
optimize_from(p, i, acc, out) ==
    IF i >= Len(p) THEN [panic |-> FALSE, stmts |-> acc, out |-> out]
    ELSE LET stmt == p[i + 1]
         IN  IF stmt.op = "Loop"
             THEN LET r == optimize_loop(stmt.body)
                  IN  IF r.panic THEN [panic |-> TRUE, stmts |-> acc, out |-> out]
                      ELSE optimize_from(p, i + 1, acc \o r.stmts, out \o r.out)
             ELSE optimize_from(p, i + 1, Append(acc, stmt), out)

optimize(p) == optimize_from(p, 0, <<>>, <<>>)

\* --------------------------------------------------------------- the tape
\* A tape is held as its non-zero cells; every other cell of the 30000 is 0.
InTape(p) == p \in 0..(TapeLen - 1)

Get(m, p) == IF p \in DOMAIN m THEN m[p] ELSE 0

Put(m, p, v) ==
    IF v = 0 THEN [k \in DOMAIN m \ {p} |-> m[k]]
    ELSE [k \in DOMAIN m \cup {p} |-> IF k = p THEN v ELSE m[k]]

\* Mutant of AsI8: the cast saturates.
AsI8_Saturating(n) == IF n > 127 THEN 127 ELSE IF n < -128 THEN -128 ELSE n

\* `n as i8`
AsI8(n) == (((n % 256) + 128) % 256) - 128

\* u8::wrapping_add_signed(n as i8)
wrapping_add_signed(c, n) == (c + AsI8(n)) % CellMod

\* usize::wrapping_add_signed(n as isize). A usize is kept as its residue of
\* least magnitude modulo 2^64, so that 0 - 1 is -1, which is no index of the tape.
ptr_add(p, n) == p + n

\* Mutant of NextByte: the byte is read but stays in the stream.
NextByte_Peek(inp) ==
    IF inp # <<>> THEN [byte |-> Head(inp), rest |-> inp]
    ELSE [byte |-> 0, rest |-> <<>>]

\* input.next().and_then(Result::ok).unwrap_or(0): the byte stored and what the
\* fused iterator has left.
NextByte(inp) ==
    IF inp # <<>> THEN [byte |-> Head(inp), rest |-> Tail(inp)]
    ELSE [byte |-> 0, rest |-> <<>>]

\* The k-th byte of standard input is 64 + k.
InByte(k) == (64 + k) % CellMod
Inputs == {[i \in 1..k |-> InByte(i)] : k \in 0..MaxInputLen}

\* ------------------------------------------------- o1::main, the interpreter
\* let mut pc = 0; mem = vec![0u8; 30000]; ptr = 0; stdout().lock(); stdin().lock()
FlatNew(inp) ==
    /\ fpc' = 0
    /\ fmem' = <<>>
    /\ fptr' = 0
    /\ finput' = inp
    /\ fout' = <<>>
    /\ frun' = "running"
    /\ fnin' = 0

\* The `while pc < prog.len()` test and one turn of its body.
FlatStepCore ==
    IF fpc >= Len(prog)
    THEN /\ frun' = "done"
         /\ UNCHANGED <<fpc, fmem, fptr, finput, fout, fnin>>
    ELSE LET inst == prog[fpc + 1]
         IN  IF inst.op = "PtrInc"
             THEN /\ fptr' = ptr_add(fptr, inst.arg)
                  /\ fpc' = fpc + 1
                  /\ UNCHANGED <<fmem, finput, fout, frun, fnin>>
             ELSE IF ~InTape(fptr)
             THEN \* mem[ptr]: index out of bounds
                  /\ frun' = "panic"
                  /\ UNCHANGED <<fpc, fmem, fptr, finput, fout, fnin>>
             ELSE CASE inst.op = "ValInc" ->
                         /\ fmem' = Put(fmem, fptr, wrapping_add_signed(Get(fmem, fptr), inst.arg))
                         /\ fpc' = fpc + 1
                         /\ UNCHANGED <<fptr, finput, fout, frun, fnin>>
                    [] inst.op = "LoopStart" ->
                         /\ fpc' = IF Get(fmem, fptr) = 0 THEN inst.arg ELSE fpc + 1
                         /\ UNCHANGED <<fmem, fptr, finput, fout, frun, fnin>>
                    [] inst.op = "LoopEnd" ->
                         /\ fpc' = IF Get(fmem, fptr) # 0 THEN inst.arg ELSE fpc + 1
                         /\ UNCHANGED <<fmem, fptr, finput, fout, frun, fnin>>
                    [] inst.op = "Output" ->
                         /\ fout' = Append(fout, Get(fmem, fptr))
                         /\ fpc' = fpc + 1
                         /\ UNCHANGED <<fmem, fptr, finput, frun, fnin>>
                    [] OTHER ->
                         /\ fmem' = Put(fmem, fptr, NextByte(finput).byte)
                         /\ finput' = NextByte(finput).rest
                         /\ fnin' = fnin + 1
                         /\ fpc' = fpc + 1
                         /\ UNCHANGED <<fptr, fout, frun>>

\* ------------------------------------------------------- o2::Interpreter
\* Mutant of WhileCond: the loop stops one short.
WhileCond_OneShort(m, p) == Get(m, p) > 1

\* Mutant of WhileCond: the cell is tested as a signed byte.
WhileCond_Signed(m, p) == AsI8(Get(m, p)) > 0

\* `while self.memory[self.ptr] != 0`
WhileCond(m, p) == Get(m, p) # 0

RECURSIVE BodyAt(_, _)
\* The statement sequence the innermost open interpret_rec call runs over.
BodyAt(tree, path) ==
    IF path = <<>> THEN tree ELSE BodyAt(tree[Head(path) + 1].body, Tail(path))

\* Interpreter::new(&prog) and the call of interpret_rec(self.prog)
InterpNew(p, inp, printed) ==
    /\ tprog' = p
    /\ tpath' = <<>>
    /\ tidx' = 0
    /\ tmem' = <<>>
    /\ tptr' = 0
    /\ tinput' = inp
    /\ tout' = printed
    /\ trun' = "running"
    /\ tnin' = 0

\* One turn of `for stmt in prog` in the innermost interpret_rec call, or, at its
\* end, the return into the caller's `while self.memory[self.ptr] != 0`.
TreeStepCore ==
    LET body == BodyAt(tprog, tpath)
    IN  IF tidx >= Len(body)
        THEN IF tpath = <<>>
             THEN /\ trun' = "done"
                  /\ UNCHANGED <<tpath, tidx, tmem, tptr, tinput, tout, tnin, tprog>>
             ELSE IF ~InTape(tptr)
             THEN /\ trun' = "panic"
                  /\ UNCHANGED <<tpath, tidx, tmem, tptr, tinput, tout, tnin, tprog>>
             ELSE IF WhileCond(tmem, tptr)
             THEN /\ tidx' = 0
                  /\ UNCHANGED <<tpath, tmem, tptr, tinput, tout, trun, tnin, tprog>>
             ELSE /\ tidx' = tpath[Len(tpath)] + 1
                  /\ tpath' = SubSeq(tpath, 1, Len(tpath) - 1)
                  /\ UNCHANGED <<tmem, tptr, tinput, tout, trun, tnin, tprog>>
        ELSE LET stmt == body[tidx + 1]
             IN  IF stmt.op = "PtrInc"
                 THEN /\ tptr' = ptr_add(tptr, stmt.n)
                      /\ tidx' = tidx + 1
                      /\ UNCHANGED <<tpath, tmem, tinput, tout, trun, tnin, tprog>>
                 ELSE IF ~InTape(tptr)
                 THEN /\ trun' = "panic"
                      /\ UNCHANGED <<tpath, tidx, tmem, tptr, tinput, tout, tnin, tprog>>
                 ELSE CASE stmt.op = "ValInc" ->
                             /\ tmem' = Put(tmem, tptr, wrapping_add_signed(Get(tmem, tptr), stmt.n))
                             /\ tidx' = tidx + 1
                             /\ UNCHANGED <<tpath, tptr, tinput, tout, trun, tnin, tprog>>
                        [] stmt.op = "Loop" ->
                             IF WhileCond(tmem, tptr)
                             THEN /\ tpath' = Append(tpath, tidx)
                                  /\ tidx' = 0
                                  /\ UNCHANGED <<tmem, tptr, tinput, tout, trun, tnin, tprog>>
                             ELSE /\ tidx' = tidx + 1
                                  /\ UNCHANGED <<tpath, tmem, tptr, tinput, tout, trun, tnin, tprog>>
                        [] stmt.op = "Output" ->
                             /\ tout' = Append(tout, Get(tmem, tptr))
                             /\ tidx' = tidx + 1
                             /\ UNCHANGED <<tpath, tmem, tptr, tinput, trun, tnin, tprog>>
                        [] OTHER ->
                             /\ tmem' = Put(tmem, tptr, NextByte(tinput).byte)
                             /\ tinput' = NextByte(tinput).rest
                             /\ tnin' = tnin + 1
                             /\ tidx' = tidx + 1
                             /\ UNCHANGED <<tpath, tptr, tout, trun, tprog>>

\* ---------------------------------------------------------- llvm::Compiler
\* No module has been generated.
NoModule == [decls |-> <<>>, blocks |-> <<>>]

\* An operand: an SSA value (numbered in the order the builder made it) or a
\* constant of a type.
Reg(ty, id) == [k |-> "reg", ty |-> ty, v |-> id]
ConstInt(ty, v) == [k |-> "const", ty |-> ty, v |-> v]

Instr(op, ty, dst, name, args, targets) ==
    [op |-> op, ty |-> ty, dst |-> dst, name |-> name, args |-> args, targets |-> targets]

\* The two allocas of Compiler::new: self.ptr and self.memory.
PtrSlot == Reg("ptr", 1)
MemorySlot == Reg("ptr", 2)

\* module.add_function for calloc, putchar and getchar.
Declarations ==
    <<[name |-> "calloc", params |-> <<"i64">>, ret |-> "ptr", noalias |-> TRUE],
      [name |-> "putchar", params |-> <<"i32">>, ret |-> "i32", noalias |-> FALSE],
      [name |-> "getchar", params |-> <<>>, ret |-> "i32", noalias |-> FALSE]>>

\* The builder: the blocks of `main` (0-based ids in creation order), the block
\* it is positioned at the end of, and the number of the next SSA value.
Emit(b, ins) == [b EXCEPT !.blocks[b.cur + 1] = Append(@, ins)]
EmitVal(b, op, ty, name, args) ==
    [Emit(b, Instr(op, ty, b.next, name, args, <<>>)) EXCEPT !.next = @ + 1]
append_basic_block(b) == [b EXCEPT !.blocks = Append(@, <<>>)]
position_at_end(b, bb) == [b EXCEPT !.cur = bb]

\* Compiler::new: the entry block with the two allocas.
CompilerNew ==
    [blocks |-> << <<Instr("alloca", "i32", 1, "ptr", <<>>, <<>>),
                     Instr("alloca", "ptr", 2, "memory", <<>>, <<>>)>> >>,
     cur |-> 0, next |-> 3]

\* load memory, load ptr, gep i8: the address of the current cell (value
\* b.next + 2 of the builder the result replaces).
ElementPtr(b) ==
    LET b1 == EmitVal(b, "load", "ptr", "", <<MemorySlot>>)
        b2 == EmitVal(b1, "load", "i32", "", <<PtrSlot>>)
    IN  EmitVal(b2, "gep", "i8", "", <<Reg("ptr", b.next), Reg("i32", b.next + 1)>>)

\* One arm of compile_rec's match, for a statement that is not a Loop.
GenSimple(b, stmt) ==
    CASE stmt.op = "PtrInc" ->
           LET b1 == EmitVal(b, "load", "i32", "", <<PtrSlot>>)
               b2 == EmitVal(b1, "add", "i32", "",
                             <<Reg("i32", b.next), ConstInt("i32", stmt.n)>>)
           IN  Emit(b2, Instr("store", "i32", 0, "", <<Reg("i32", b.next + 1), PtrSlot>>, <<>>))
      [] stmt.op = "ValInc" ->
           LET b1 == ElementPtr(b)
               e == Reg("ptr", b.next + 2)
               b2 == EmitVal(b1, "load", "i8", "", <<e>>)
               b3 == EmitVal(b2, "add", "i8", "",
                             <<Reg("i8", b.next + 3), ConstInt("i8", AsI8(stmt.n))>>)
           IN  Emit(b3, Instr("store", "i8", 0, "", <<Reg("i8", b.next + 4), e>>, <<>>))
      [] stmt.op = "Output" ->
           LET b1 == ElementPtr(b)
               b2 == EmitVal(b1, "load", "i8", "", <<Reg("ptr", b.next + 2)>>)
           IN  EmitVal(b2, "call", "i32", "putchar", <<Reg("i8", b.next + 3)>>)
      [] OTHER ->
           LET b1 == ElementPtr(b)
               b2 == EmitVal(b1, "call", "i32", "getchar", <<>>)
           IN  Emit(b2, Instr("store", "i32", 0, "",
                              <<Reg("i32", b.next + 3), Reg("ptr", b.next + 2)>>, <<>>))

\* Mutant of LoopHeader: the address of the tested cell is computed once, in the
\* block before the loop, so a back-edge tests the cell of the first arrival.
LoopHeader_EntryCursor(b) ==
    LET cond_bb == Len(b.blocks)
        b1 == append_basic_block(b)
        b2 == ElementPtr(b1)
        b3 == Emit(b2, Instr("br", "", 0, "", <<>>, <<cond_bb>>))
        b4 == position_at_end(b3, cond_bb)
        b5 == EmitVal(b4, "load", "i8", "", <<Reg("ptr", b.next + 2)>>)
        b6 == EmitVal(b5, "icmp_ne", "i1", "", <<Reg("i8", b.next + 3), ConstInt("i8", 0)>>)
        true_bb == Len(b6.blocks)
        b7 == append_basic_block(append_basic_block(b6))
        b8 == Emit(b7, Instr("condbr", "", 0, "", <<Reg("i1", b.next + 4)>>,
                             <<true_bb, true_bb + 1>>))
    IN  position_at_end(b8, true_bb)

\* The Loop arm up to position_at_end(true_bb): the header block with the
\* condition load and the conditional branch.
LoopHeader(b) ==
    LET cond_bb == Len(b.blocks)
        b1 == append_basic_block(b)
        b2 == Emit(b1, Instr("br", "", 0, "", <<>>, <<cond_bb>>))
        b3 == position_at_end(b2, cond_bb)
        b4 == ElementPtr(b3)
        b5 == EmitVal(b4, "load", "i8", "", <<Reg("ptr", b.next + 2)>>)
        b6 == EmitVal(b5, "icmp_ne", "i1", "", <<Reg("i8", b.next + 3), ConstInt("i8", 0)>>)
        true_bb == Len(b6.blocks)
        b7 == append_basic_block(append_basic_block(b6))
        b8 == Emit(b7, Instr("condbr", "", 0, "", <<Reg("i1", b.next + 4)>>,
                             <<true_bb, true_bb + 1>>))
    IN  position_at_end(b8, true_bb)

\* Compiler::compile_rec from statement i of `prog` on.
RECURSIVE codegen_rec(_, _, _)
codegen_rec(b, p, i) ==
    IF i >= Len(p) THEN b
    ELSE LET stmt == p[i + 1]
         IN  IF stmt.op = "Loop"
             THEN LET cond_bb == Len(b.blocks)
                      h == LoopHeader(b)
                      inner == codegen_rec(h, stmt.body, 0)
                      back == Emit(inner, Instr("br", "", 0, "", <<>>, <<cond_bb>>))
                  IN  codegen_rec(position_at_end(back, cond_bb + 2), p, i + 1)
             ELSE codegen_rec(GenSimple(b, stmt), p, i + 1)

\* Compiler::new(..)?.compile(prog): the module that print_to_string prints.
CompilerCompile(p) ==
    LET b0 == CompilerNew
        b1 == Emit(b0, Instr("store", "i32", 0, "", <<ConstInt("i32", 0), PtrSlot>>, <<>>))
        b2 == EmitVal(b1, "call", "ptr", "calloc",
                      <<ConstInt("i64", TapeLen), ConstInt("i64", 1)>>)
        b3 == Emit(b2, Instr("store", "ptr", 0, "", <<Reg("ptr", b1.next), MemorySlot>>, <<>>))
        b4 == codegen_rec(b3, p, 0)
        b5 == Emit(b4, Instr("ret", "i32", 0, "", <<ConstInt("i32", 0)>>, <<>>))
    IN  [decls |-> Declarations, blocks |-> b5.blocks]

\* ------------------------------------------------- the generated executable
\* `main` of the module, run as clang's executable runs it. A pointer into the
\* tape is held as its offset from the address calloc returned; integers of
\* type i8 are held as 0..255 and those of type i32 as signed numbers.
\* getchar(): the next byte of standard input, EOF (-1) once it is exhausted.
GetChar(inp) ==
    IF inp # <<>> THEN [res |-> Head(inp), rest |-> Tail(inp)]
    ELSE [res |-> -1, rest |-> <<>>]

\* The value of an operand.
Val(regs, x) ==
    IF x.k = "const" THEN (IF x.ty = "i8" THEN x.v % CellMod ELSE x.v)
    ELSE regs[x.v]

SetReg(regs, d, v) == [k \in DOMAIN regs \cup {d} |-> IF k = d THEN v ELSE regs[k]]

\* The operand is the address of one of the two allocas.
IsSlot(x) == x \in {PtrSlot, MemorySlot}

\* Bytes a store of type ty writes, and byte k (from the lowest address) of the
\* value v it writes: the targets clang builds for here are little-endian.
Width(ty) == IF ty = "i32" THEN 4 ELSE 1
ByteOf(v, k) ==
    CASE k = 0 -> v % 256
      [] k = 1 -> (v \div 256) % 256
      [] k = 2 -> (v \div 65536) % 256
      [] OTHER -> (v \div 16777216) % 256

\* The tape after the bytes 0..w-1 of v are written from address a on (a byte
\* that falls outside the tape does not reach it).
RECURSIVE StoreBytes(_, _, _, _)
StoreBytes(m, a, v, w) ==
    IF w = 0 THEN m
    ELSE LET m1 == StoreBytes(m, a, v, w - 1)
         IN  IF InTape(a + w - 1) THEN Put(m1, a + w - 1, ByteOf(v, w - 1)) ELSE m1

\* Entry into `main`.
NatNew(inp) ==
    /\ nblk' = 0
    /\ nidx' = 0
    /\ nregs' = <<>>
    /\ nslots' = <<0, 0>>
    /\ nmem' = <<>>
    /\ ninput' = inp
    /\ nout' = <<>>
    /\ nrun' = "running"
    /\ nnin' = 0
    /\ nsteps' = 0

\* One instruction of `main`. An access outside the calloc'ed block is undefined
\* behaviour: the process is killed, or it goes on (a load yields some byte, a
\* store misses the tape).
NatStepCore ==
    LET ins == ir.blocks[nblk + 1][nidx + 1]
        a1 == IF Len(ins.args) >= 1 THEN ins.args[1] ELSE ConstInt("i32", 0)
        a2 == IF Len(ins.args) >= 2 THEN ins.args[2] ELSE ConstInt("i32", 0)
        fall == nblk' = nblk /\ nidx' = nidx + 1
        def(v) == nregs' = SetReg(nregs, ins.dst, v)
    IN  CASE ins.op = "alloca" ->
               /\ fall
               /\ UNCHANGED <<nregs, nslots, nmem, ninput, nout, nrun, nnin>>
          [] ins.op = "store" /\ IsSlot(a2) ->
               /\ nslots' = [nslots EXCEPT ![a2.v] = Val(nregs, a1)]
               /\ fall
               /\ UNCHANGED <<nregs, nmem, ninput, nout, nrun, nnin>>
          [] ins.op = "store" /\ ~IsSlot(a2) ->
               LET a == Val(nregs, a2)
                   w == Width(ins.ty)
               IN  IF \A k \in 0..(w - 1) : InTape(a + k)
                   THEN /\ nmem' = StoreBytes(nmem, a, Val(nregs, a1), w)
                        /\ fall
                        /\ UNCHANGED <<nregs, nslots, ninput, nout, nrun, nnin>>
                   ELSE \/ /\ nrun' = "crash"
                           /\ UNCHANGED <<nblk, nidx, nregs, nslots, nmem, ninput, nout, nnin>>
                        \/ /\ nmem' = StoreBytes(nmem, a, Val(nregs, a1), w)
                           /\ fall
                           /\ UNCHANGED <<nregs, nslots, ninput, nout, nrun, nnin>>
          [] ins.op = "load" /\ IsSlot(a1) ->
               /\ def(nslots[a1.v])
               /\ fall
               /\ UNCHANGED <<nslots, nmem, ninput, nout, nrun, nnin>>
          [] ins.op = "load" /\ ~IsSlot(a1) ->
               LET a == Val(nregs, a1)
               IN  IF InTape(a)
                   THEN /\ def(Get(nmem, a))
                        /\ fall
                        /\ UNCHANGED <<nslots, nmem, ninput, nout, nrun, nnin>>
                   ELSE \/ /\ nrun' = "crash"
                           /\ UNCHANGED <<nblk, nidx, nregs, nslots, nmem, ninput, nout, nnin>>
                        \/ /\ \E v \in {0, CellMod - 1} : def(v)
                           /\ fall
                           /\ UNCHANGED <<nslots, nmem, ninput, nout, nrun, nnin>>
          [] ins.op = "add" ->
               /\ def(IF ins.ty = "i8"
                      THEN (Val(nregs, a1) + Val(nregs, a2)) % CellMod
                      ELSE wrapping_add(Val(nregs, a1), Val(nregs, a2)))
               /\ fall
               /\ UNCHANGED <<nslots, nmem, ninput, nout, nrun, nnin>>
          [] ins.op = "gep" ->
               /\ def(Val(nregs, a1) + Val(nregs, a2))
               /\ fall
               /\ UNCHANGED <<nslots, nmem, ninput, nout, nrun, nnin>>
          [] ins.op = "icmp_ne" ->
               /\ def(IF Val(nregs, a1) # Val(nregs, a2) THEN 1 ELSE 0)
               /\ fall
               /\ UNCHANGED <<nslots, nmem, ninput, nout, nrun, nnin>>
          [] ins.op = "call" /\ ins.name = "calloc" ->
               /\ def(0)
               /\ nmem' = <<>>
               /\ fall
               /\ UNCHANGED <<nslots, ninput, nout, nrun, nnin>>
          [] ins.op = "call" /\ ins.name = "putchar" ->
               /\ nout' = Append(nout, Val(nregs, a1) % CellMod)
               /\ def(Val(nregs, a1) % CellMod)
               /\ fall
               /\ UNCHANGED <<nslots, nmem, ninput, nrun, nnin>>
          [] ins.op = "call" /\ ins.name = "getchar" ->
               LET r == GetChar(ninput)
               IN  /\ def(r.res)
                   /\ ninput' = r.rest
                   /\ nnin' = nnin + 1
                   /\ fall
                   /\ UNCHANGED <<nslots, nmem, nout, nrun>>
          [] ins.op = "br" ->
               /\ nblk' = ins.targets[1]
               /\ nidx' = 0
               /\ UNCHANGED <<nregs, nslots, nmem, ninput, nout, nrun, nnin>>
          [] ins.op = "condbr" ->
               /\ nblk' = IF Val(nregs, a1) # 0 THEN ins.targets[1] ELSE ins.targets[2]
               /\ nidx' = 0
               /\ UNCHANGED <<nregs, nslots, nmem, ninput, nout, nrun, nnin>>
          [] OTHER ->
               /\ nrun' = "done"
               /\ UNCHANGED <<nblk, nidx, nregs, nslots, nmem, ninput, nout, nnin>>

\* ------------------------------------------------- o0::main, the interpreter
\* The scan of the b'[' arm: `pc` is the next byte it looks at; the value is pc
\* when nest_level has come to 0, or -1 when instructions[pc] is out of bounds.
RECURSIVE ScanFwd(_, _, _)
ScanFwd(f, p, nest) ==
    IF nest = 0 THEN p
    ELSE IF p >= Len(f) THEN -1
    ELSE ScanFwd(f, p + 1, CASE f[p + 1] = "[" -> nest + 1
                             [] f[p + 1] = "]" -> nest - 1
                             [] OTHER -> nest)

\* The scan of the b']' arm, backwards: the value is pc when nest_level has come
\* to 0 (-1 when the last `pc -= 1` was taken at 0), or -2 when the scan runs
\* past the first byte with nest_level still above 0.
RECURSIVE ScanBack(_, _, _)
ScanBack(f, p, nest) ==
    IF nest = 0 THEN p
    ELSE IF p < 0 THEN -2
    ELSE ScanBack(f, p - 1, CASE f[p + 1] = "[" -> nest - 1
                              [] f[p + 1] = "]" -> nest + 1
                              [] OTHER -> nest)

\* Mutant of SkipLoop: the `pc += 1` after the match is left out.
SkipLoop_AtClose(f, p) ==
    LET r == ScanFwd(f, p + 1, 1)
    IN  IF r = -1 THEN -1 ELSE r - 1

\* The b'[' arm with the cell 0, and the `pc += 1` after the match: pc in front
\* of the byte behind the matching b']' (-1: the scan left the file).
SkipLoop(f, p) == ScanFwd(f, p + 1, 1)

\* let mut pc = 0; mem = vec![0u8; 30000]; ptr = 0usize; stdout().lock(); stdin().lock()
O0New(inp) ==
    /\ zpc' = 0
    /\ zmem' = <<>>
    /\ zptr' = 0
    /\ zinput' = inp
    /\ zout' = <<>>
    /\ zrun' = "running"
    /\ zsteps' = 0

\* The `while pc < instructions.len()` test and one turn of its body. `ptr` is
\* kept as the residue of least magnitude, as in o1::main. `ptr -= 1` at 0,
\* `ptr += 1` at usize::MAX and `pc -= 1` at 0 overflow: the process panics
\* where the build checks overflow and goes on with the wrapped value where it
\* does not.
O0StepCore ==
    IF zpc >= Len(file)
    THEN /\ zrun' = "done"
         /\ UNCHANGED <<zpc, zmem, zptr, zinput, zout>>
    ELSE LET c == file[zpc + 1]
             panics(kind) == /\ zrun' = kind
                             /\ UNCHANGED <<zpc, zmem, zptr, zinput, zout>>
         IN  CASE c \in {">", "<"} ->
                    LET d == IF c = ">" THEN 1 ELSE -1
                    IN  \/ /\ zptr' = zptr + d
                           /\ zpc' = zpc + 1
                           /\ UNCHANGED <<zmem, zinput, zout, zrun>>
                        \/ /\ (c = "<" /\ zptr = 0) \/ (c = ">" /\ zptr = -1)
                           /\ panics("panic")
               [] c \in {"+", "-"} ->
                    IF ~InTape(zptr) THEN panics("panic")
                    ELSE /\ zmem' = Put(zmem, zptr,
                                        (Get(zmem, zptr) + (IF c = "+" THEN 1 ELSE CellMod - 1))
                                            % CellMod)
                         /\ zpc' = zpc + 1
                         /\ UNCHANGED <<zptr, zinput, zout, zrun>>
               [] c = "[" ->
                    IF ~InTape(zptr) THEN panics("panic")
                    ELSE IF Get(zmem, zptr) = 0
                    THEN LET r == SkipLoop(file, zpc)
                         IN  IF r = -1 THEN panics("panic_pc")
                             ELSE /\ zpc' = r
                                  /\ UNCHANGED <<zmem, zptr, zinput, zout, zrun>>
                    ELSE /\ zpc' = zpc + 1
                         /\ UNCHANGED <<zmem, zptr, zinput, zout, zrun>>
               [] c = "]" ->
                    LET r == IF zpc = 0 THEN -2 ELSE ScanBack(file, zpc - 1, 1)
                    IN  IF r = -2 THEN panics("panic_pc")
                        ELSE IF r = -1
                        THEN \/ panics("panic_pc")
                             \/ /\ zpc' = 0
                                /\ UNCHANGED <<zmem, zptr, zinput, zout, zrun>>
                        ELSE /\ zpc' = r + 1
                             /\ UNCHANGED <<zmem, zptr, zinput, zout, zrun>>
               [] c = "." ->
                    IF ~InTape(zptr) THEN panics("panic")
                    ELSE /\ zout' = Append(zout, Get(zmem, zptr))
                         /\ zpc' = zpc + 1
                         /\ UNCHANGED <<zmem, zptr, zinput, zrun>>
               [] c = "," ->
                    IF ~InTape(zptr) THEN panics("panic")
                    ELSE LET r == NextByte(zinput)
                         IN  /\ zmem' = Put(zmem, zptr, r.byte)
                             /\ zinput' = r.rest
                             /\ zpc' = zpc + 1
                             /\ UNCHANGED <<zptr, zout, zrun>>
               [] OTHER ->
                    /\ zpc' = zpc + 1
                    /\ UNCHANGED <<zmem, zptr, zinput, zout, zrun>>

\* How a process whose interpreter came to `run` ends.
Outcome(run, old) ==
    CASE run = "done" -> "ok"
      [] run = "panic" -> "panic_oob"
      [] OTHER -> old

\* --------------------------------------------------------- the entry points
\* o1::main after `let prog = compile(f)?`: the interpreter's locals.
O1Start ==
    /\ mode = "o1"
    /\ pc = "compiled"
    /\ \E inp \in Inputs : stdin' = inp /\ FlatNew(inp)
    /\ pc' = "run"
    /\ UNCHANGED <<symvars, o0vars, natvars, mode, status, stmts, opt, steps, ir, compvars, treevars>>

\* o1::main: one turn of the interpreter loop; Ok(()) when it is over.
FlatStep ==
    /\ mode = "o1"
    /\ pc = "run"
    /\ frun = "running"
    /\ steps < MaxSteps
    /\ FlatStepCore
    /\ steps' = steps + 1
    /\ status' = Outcome(frun', status)
    /\ pc' = IF frun' = "running" THEN pc ELSE "exit"
    /\ UNCHANGED <<symvars, o0vars, natvars, mode, stmts, opt, stdin, ir, compvars, treevars>>

\* o2::main and llvm::main: `let prog = compile(prog)`.
O2Compile ==
    /\ mode \in {"o2", "llvm", "rt", "nat"}
    /\ pc = "compiled"
    /\ stmts' = compile(prog)
    /\ pc' = "built"
    /\ UNCHANGED <<symvars, o0vars, natvars, mode, status, opt, stdin, steps, ir, compvars, flatvars, treevars>>

\* o2::main: `let prog = optimize(prog)`; its println! goes to standard output.
Optimize ==
    /\ mode = "o2"
    /\ pc = "built"
    /\ LET r == optimize(stmts)
       IN  /\ tout' = tout \o r.out
           /\ IF r.panic
              THEN /\ status' = "panic_diverge"
                   /\ pc' = "exit"
                   /\ UNCHANGED opt
              ELSE /\ opt' = r.stmts
                   /\ pc' = "optimized"
                   /\ UNCHANGED status
    /\ UNCHANGED <<symvars, o0vars, natvars, mode, stmts, stdin, steps, ir, compvars, flatvars,
                   tpath, tidx, tmem, tptr, tinput, trun, tnin, tprog>>

\* o2::main: Interpreter::new(&prog).interpret()
O2Start ==
    /\ mode = "o2"
    /\ pc = "optimized"
    /\ \E inp \in Inputs : stdin' = inp /\ InterpNew(opt, inp, tout)
    /\ pc' = "run"
    /\ UNCHANGED <<symvars, o0vars, natvars, mode, status, stmts, opt, steps, ir, compvars, flatvars>>

\* o2::main: one step of interpret_rec; Ok(()) when the outermost call returns.
TreeStep ==
    /\ mode = "o2"
    /\ pc = "run"
    /\ trun = "running"
    /\ steps < MaxSteps
    /\ TreeStepCore
    /\ steps' = steps + 1
    /\ status' = Outcome(trun', status)
    /\ pc' = IF trun' = "running" THEN pc ELSE "exit"
    /\ UNCHANGED <<symvars, o0vars, natvars, mode, stmts, opt, stdin, ir, compvars, flatvars>>

\* llvm::main: `let ir = Compiler::new(..)?.compile(prog)?`, handed to the
\* external toolchain (File::create, clang, the executable: not modelled).
LlvmCompile ==
    /\ mode = "llvm"
    /\ pc = "built"
    /\ ir' = CompilerCompile(stmts)
    /\ pc' = "exit"
    /\ status' = "ok"
    /\ UNCHANGED <<symvars, o0vars, natvars, mode, stmts, opt, stdin, steps, compvars, flatvars, treevars>>

\* ------------------------------------------------ round trip of interpreters
\* The flat interpreter on o1::compile's instructions and the Tree Interpreter on
\* o2::compile's tree (no optimizer) are started on the same standard input.
RTStart ==
    /\ mode = "rt"
    /\ pc = "built"
    /\ \E inp \in Inputs : stdin' = inp /\ FlatNew(inp) /\ InterpNew(stmts, inp, <<>>)
    /\ pc' = "run"
    /\ UNCHANGED <<symvars, o0vars, natvars, mode, status, stmts, opt, steps, ir, compvars>>

\* Both interpreters take their next step (one that has ended stays ended).
RTStep ==
    /\ mode = "rt"
    /\ pc = "run"
    /\ ~(frun # "running" /\ trun # "running")
    /\ steps < MaxSteps
    /\ IF frun = "running" THEN FlatStepCore ELSE UNCHANGED flatvars
    /\ IF trun = "running" THEN TreeStepCore ELSE UNCHANGED treevars
    /\ steps' = steps + 1
    /\ pc' = IF ~(frun' # "running" /\ trun' # "running") THEN pc ELSE "exit"
    /\ UNCHANGED <<symvars, o0vars, natvars, mode, status, stmts, opt, stdin, ir, compvars>>

\* --------------------------------------------- the executable, side by side
\* llvm::main without --text: the module is compiled by clang and the executable
\* is run; next to it the Tree Interpreter is started on the tree the module was
\* generated from, on the same standard input.
NatStart ==
    /\ mode = "nat"
    /\ pc = "built"
    /\ ir' = CompilerCompile(stmts)
    /\ \E inp \in Inputs : stdin' = inp /\ NatNew(inp) /\ InterpNew(stmts, inp, <<>>)
    /\ pc' = "run"
    /\ UNCHANGED <<symvars, o0vars, mode, status, stmts, opt, steps, compvars, flatvars>>

\* The Tree Interpreter runs first.
NatTreeStep ==
    /\ mode = "nat"
    /\ pc = "run"
    /\ trun = "running"
    /\ steps < MaxSteps
    /\ TreeStepCore
    /\ steps' = steps + 1
    /\ UNCHANGED <<symvars, o0vars, natvars, mode, pc, status, stmts, opt, stdin, ir, compvars, flatvars>>

\* Then the executable runs, one instruction at a time; Command::status waits
\* for it and llvm::main returns Ok(()) however it ended.
NatStep ==
    /\ mode = "nat"
    /\ pc = "run"
    /\ trun # "running"
    /\ nrun = "running"
    /\ nsteps < MaxNatSteps
    /\ NatStepCore
    /\ nsteps' = nsteps + 1
    /\ status' = IF nrun' = "running" THEN status ELSE "ok"
    /\ pc' = IF nrun' = "running" THEN pc ELSE "exit"
    /\ UNCHANGED <<symvars, o0vars, mode, stmts, opt, stdin, steps, ir, compvars, flatvars, treevars>>

\* ------------------------------------------- o0::main next to o1::main
\* o0::main reads the file and enters its loop; next to it o1::main, which has
\* assembled the same file, enters its own on the same standard input.
EqStart ==
    /\ mode = "eq"
    /\ pc = "compiled"
    /\ \E inp \in Inputs : stdin' = inp /\ FlatNew(inp) /\ O0New(inp)
    /\ pc' = "run"
    /\ UNCHANGED <<symvars, natvars, mode, status, stmts, opt, steps, ir, compvars, treevars>>

\* Both interpreters take their next turn (one that has ended stays ended).
EqStep ==
    /\ mode = "eq"
    /\ pc = "run"
    /\ ~(frun # "running" /\ zrun # "running")
    /\ zsteps < MaxO0Steps
    /\ IF frun = "running"
       THEN FlatStepCore /\ steps' = steps + 1
       ELSE UNCHANGED <<flatvars, steps>>
    /\ IF zrun = "running" THEN O0StepCore ELSE UNCHANGED <<zpc, zmem, zptr, zinput, zout, zrun>>
    /\ zsteps' = zsteps + 1
    /\ pc' = IF ~(frun' # "running" /\ zrun' # "running") THEN pc ELSE "exit"
    /\ UNCHANGED <<symvars, natvars, mode, status, stmts, opt, stdin, ir, compvars, treevars>>

\* ----------------------------------------------------------- specifications
Files == SeqsUpTo(Meaningful, MaxSrcLen) \cup Scenarios
AsmFiles == SeqsUpTo(Meaningful \cup {OtherByte}, MaxAsmLen)

\* ------------------------------ optimize_loop: symbolic_execution(&body)
\* One turn of `for stmt in prog`, or the Ok(..) after its last turn.
SymStep ==
    /\ mode = "sym"
    /\ srun = "running"
    /\ IF sidx >= Len(sbody)
       THEN /\ srun' = "ok"
            /\ UNCHANGED <<sidx, sptr, smap>>
       ELSE LET stmt == sbody[sidx + 1]
            IN  CASE stmt.op = "PtrInc" ->
                       /\ sptr' = sptr + stmt.n
                       /\ sidx' = sidx + 1
                       /\ UNCHANGED <<smap, srun>>
                  [] stmt.op = "ValInc" ->
                       LET md == Adjust(smap, sptr, stmt.n)
                       IN  IF md[sptr].tag = "todo"
                           THEN \* simplify reached a todo!()
                                /\ srun' = "todo"
                                /\ UNCHANGED <<sidx, sptr, smap>>
                           ELSE /\ smap' = md
                                /\ sidx' = sidx + 1
                                /\ UNCHANGED <<sptr, srun>>
                  [] OTHER ->
                       \* Err(()) of a Loop, an Output or an Input
                       /\ srun' = "err"
                       /\ UNCHANGED <<sidx, sptr, smap>>
    /\ UNCHANGED <<sbody, o0vars, natvars, mode, pc, status, stmts, opt, stdin, steps, ir,
                   compvars, flatvars, treevars>>

\* optimize_loop's match on the value symbolic_execution returned.
SymReturn ==
    /\ mode = "sym"
    /\ srun \in {"ok", "err"}
    /\ LET r == optimize_loop(sbody)
       IN  /\ srun' = IF r.panic THEN "diverge" ELSE IF r.out # <<>> THEN "reported" ELSE "kept"
           /\ status' = IF r.panic THEN "panic" ELSE status
    /\ UNCHANGED <<sbody, sidx, sptr, smap, o0vars, natvars, mode, pc, stmts, opt, stdin, steps,
                   ir, compvars, flatvars, treevars>>

\* Every variable but those of symbolic_execution, with the process at `at`.
Begin(m, f, at) ==
    /\ mode = m
    /\ file = f
    /\ pos = 0
    /\ cprog = <<>>
    /\ state = StateNone
    /\ stack = <<>>
    /\ pc = at
    /\ status = "running"
    /\ prog = NoProg
    /\ stmts = NoTree
    /\ opt = NoTree
    /\ stdin = <<>>
    /\ steps = 0
    /\ fpc = 0 /\ fmem = <<>> /\ fptr = 0 /\ finput = <<>> /\ fout = <<>>
    /\ frun = "idle" /\ fnin = 0
    /\ tpath = <<>> /\ tidx = 0 /\ tmem = <<>> /\ tptr = 0 /\ tinput = <<>>
    /\ tout = <<>> /\ trun = "idle" /\ tnin = 0 /\ tprog = NoTree
    /\ ir = NoModule
    /\ nblk = 0 /\ nidx = 0 /\ nregs = <<>> /\ nslots = <<0, 0>> /\ nmem = <<>>
    /\ ninput = <<>> /\ nout = <<>> /\ nrun = "idle" /\ nnin = 0 /\ nsteps = 0
    /\ zpc = 0 /\ zmem = <<>> /\ zptr = 0 /\ zinput = <<>> /\ zout = <<>>
    /\ zrun = "idle" /\ zsteps = 0

\* The state in which an entry point calls o1::compile(f).
Start(m, f) ==
    /\ Begin(m, f, "compile")
    /\ sbody = <<>> /\ sidx = 0 /\ sptr = 0 /\ smap = <<>> /\ srun = "idle"

Init == \E m \in {"o1", "o2", "llvm"}, f \in Files : Start(m, f)

Next ==
    \/ CompileByte
    \/ CompileEnd
    \/ O1Start
    \/ FlatStep
    \/ O2Compile
    \/ Optimize
    \/ O2Start
    \/ TreeStep
    \/ LlvmCompile

Spec == Init /\ [][Next]_vars

\* o1::compile alone, over every short byte sequence.
InitAsm == \E f \in AsmFiles : Start("o1", f)

NextAsm ==
    \/ CompileByte
    \/ CompileEnd

SpecAsm == InitAsm /\ [][NextAsm]_vars

\* The two interpreters side by side.
InitRT == \E f \in Files : Start("rt", f)

NextRT ==
    \/ CompileByte
    \/ CompileEnd
    \/ O2Compile
    \/ RTStart
    \/ RTStep

SpecRT == InitRT /\ [][NextRT]_vars

\* The executable next to the Tree Interpreter: every short source, the
\* scenarios, and loops that leave the cursor displaced or read input twice.
NatFiles ==
    SeqsUpTo(Meaningful, MaxNatLen) \cup Scenarios
    \cup { <<"+", "[", ">", "]">>,
           <<">", "+", "[", "<", "]">>,
           <<"+", "[", ">", "+", ">", "]">>,
           <<"+", "+", "[", "-", ">", "[", ">", "]", "+", "<", "]">>,
           <<">", ",", "<", ",">>,
           <<",", "[", ">", ",", "]">> }

InitNat == \E f \in NatFiles : Start("nat", f)

NextNat ==
    \/ CompileByte
    \/ CompileEnd
    \/ O2Compile
    \/ NatStart
    \/ NatTreeStep
    \/ NatStep

SpecNat == InitNat /\ [][NextNat]_vars

\* Cell arithmetic: sources that set cell0 to 0, 1 or 255 and cell1 to 1 and
\* end in one run of '+' or '-' whose length is next to a multiple of 128.
ValPrefixes == {<<>>, <<"+">>, <<"-">>}
ValDeltas == {d \in (-MaxRun)..MaxRun : d # 0 /\ (d % 128) \in {0, 1, 127}}
ValFile(pre, d) ==
    pre \o <<">", "+", "<">> \o (IF d > 0 THEN Rep("+", d) ELSE Rep("-", -d))

InitVal == \E m \in {"o1", "nat"}, pre \in ValPrefixes, d \in ValDeltas : Start(m, ValFile(pre, d))

NextVal ==
    \/ CompileByte
    \/ CompileEnd
    \/ O1Start
    \/ FlatStep
    \/ O2Compile
    \/ NatStart
    \/ NatTreeStep
    \/ NatStep

SpecVal == InitVal /\ [][NextVal]_vars

\* o0::main next to o1::main: every short byte sequence, the scenarios, and
\* loops with bytes that are no symbols in them.
O0Files ==
    SeqsUpTo(Meaningful \cup {OtherByte}, MaxO0Len) \cup Scenarios
    \cup { <<"+", "x", "[", "x", "-", "x", "]", "x">>,
           <<"+", "+", "x", "+", "[", ">", "x", ">", "+", "<", "<", "-", "]", ">", ">", ".">>,
           <<",", "x", "[", ".", "x", ",", "]">>,
           <<"+", ">", "+", "[", "<", "]", ">", ".">>,
           <<"-", "[", "-", "-", "]", "+", ".">> }

InitO0 == \E f \in O0Files : Start("eq", f)

NextO0 ==
    \/ CompileByte
    \/ CompileEnd
    \/ EqStart
    \/ EqStep

SpecO0 == InitO0 /\ [][NextO0]_vars

\* ------------------------------------------ symbolic_execution alone
\* The deltas of the bodies: small ones, none, and the ends of i32.
SymMoves == {-1, 0, 1}
SymDeltas == {-1, 0, 1, I32Max, -I32Max - 1}
SymStmts ==
    {StmtPtrInc(d) : d \in SymMoves} \cup {StmtValInc(v) : v \in SymDeltas}
    \cup {StmtOutput, StmtInput, StmtLoop(<<>>)}

\* o1::compile folds a run into one instruction: no statement follows one of its
\* own kind unless it is a Loop, an Output or an Input.
RunsFolded(b) ==
    \A i \in 1..(Len(b) - 1) : b[i].op \in {"PtrInc", "ValInc"} => b[i + 1].op # b[i].op

SymBodies == {b \in SeqsUpTo(SymStmts, MaxBodyLen) : RunsFolded(b)}

\* optimize_loop(body) has just called symbolic_execution(&body).
InitSym ==
    \E b \in SymBodies :
        /\ Begin("sym", <<>>, "optimize")
        /\ sbody = b /\ sidx = 0 /\ sptr = 0 /\ smap = <<>> /\ srun = "running"

NextSym == SymStep \/ SymReturn

SpecSym == InitSym /\ [][NextSym]_vars

\* ======================================================= assembler claims
\* The source with the bytes that are not one of the eight symbols left out.
Symbols(f) == SelectSeq(f, LAMBDA c : c \in Meaningful)

RECURSIVE Count(_, _)
Count(s, K) == IF s = <<>> THEN 0
               ELSE (IF Head(s) \in K THEN 1 ELSE 0) + Count(Tail(s), K)

\* Length of the longest prefix of s made of bytes of K.
RECURSIVE RunLen(_, _)
RunLen(s, K) == IF s = <<>> \/ Head(s) \notin K THEN 0 ELSE 1 + RunLen(Tail(s), K)

\* What folding asks for: one instruction per maximal run, one per other symbol.
RECURSIVE Folded(_)
Folded(s) ==
    IF s = <<>> THEN <<>>
    ELSE IF Head(s) \in {">", "<"}
    THEN LET k == RunLen(s, {">", "<"})
             run == SubSeq(s, 1, k)
         IN  <<[op |-> "PtrInc", arg |-> Count(run, {">"}) - Count(run, {"<"})]>>
             \o Folded(SubSeq(s, k + 1, Len(s)))
    ELSE IF Head(s) \in {"+", "-"}
    THEN LET k == RunLen(s, {"+", "-"})
             run == SubSeq(s, 1, k)
         IN  <<[op |-> "ValInc", arg |-> Count(run, {"+"}) - Count(run, {"-"})]>>
             \o Folded(SubSeq(s, k + 1, Len(s)))
    ELSE <<[op |-> CASE Head(s) = "[" -> "LoopStart"
                     [] Head(s) = "]" -> "LoopEnd"
                     [] Head(s) = "." -> "Output"
                     [] OTHER -> "Input",
            arg |-> 0]>> \o Folded(Tail(s))

\* An instruction sequence with its jump targets blanked.
NoTargets(p) ==
    [i \in 1..Len(p) |-> IF p[i].op \in {"LoopStart", "LoopEnd"}
                         THEN [op |-> p[i].op, arg |-> 0] ELSE p[i]]

\* C4: every maximal run of '>'/'<' (of '+'/'-') that no other meaningful symbol
\* interrupts becomes exactly one PtrInc (ValInc) whose delta is the signed sum
\* of the run, also when the sum is 0 and however the run ends: the returned
\* sequence is, kind by kind and delta by delta, the folded source.
C4_FoldCorrect ==
    pc = "compiled" => NoTargets(prog) = Folded(Symbols(file))

\* C4 witness: a zero-sum '+-' run ended by the other kind, then a '>' run that
\* a comment byte does not interrupt and that the end of stream ends.
C4_Witness ==
    /\ pc = "compiled"
    /\ file = <<"+", "-", ">", "x", ">">>
    /\ prog = <<InstValInc(0), InstPtrInc(2)>>

\* Bracket depth stays >= 0 and ends at 0.
RECURSIVE DepthOk(_, _)
DepthOk(s, d) ==
    IF s = <<>> THEN d = 0
    ELSE IF Head(s) = "[" THEN DepthOk(Tail(s), d + 1)
    ELSE IF Head(s) = "]" THEN d > 0 /\ DepthOk(Tail(s), d - 1)
    ELSE DepthOk(Tail(s), d)

ProperlyNested(f) == DepthOk(f, 0)

\* Some prefix of f holds more ']' than '['.
CloseBeforeOpen(f) ==
    \E k \in 1..Len(f) :
        Count(SubSeq(f, 1, k), {"]"}) > Count(SubSeq(f, 1, k), {"["})

\* C5 as stated: more ']' than '[' gives the unmatched-close error and more '['
\* than ']' gives the unmatched-open error.
C5_Original ==
    pc # "compile" =>
        /\ Count(file, {"]"}) > Count(file, {"["}) => status = "err_close"
        /\ Count(file, {"["}) > Count(file, {"]"}) => status = "err_open"

\* C5 amended: more ']' than '[' gives the unmatched-close error; more '[' than
\* ']' makes compile fail, with the unmatched-open error when no prefix of the
\* source holds more ']' than '[' and with the unmatched-close error otherwise.
C5_BracketErrors ==
    pc # "compile" =>
        /\ Count(file, {"]"}) > Count(file, {"["}) => status = "err_close"
        /\ Count(file, {"["}) > Count(file, {"]"}) =>
               status = (IF CloseBeforeOpen(file) THEN "err_close" ELSE "err_open")
        /\ status \in {"err_close", "err_open"} => pc = "exit" /\ prog = NoProg

\* C5 witness: a source with more '[' than ']' whose first bracket is a ']'.
C5_Witness ==
    /\ pc = "exit"
    /\ file = <<"]", "[", "[">>
    /\ status = "err_close"

\* The LoopEnd that closes the LoopStart at 0-based index s, by bracket depth.
RECURSIVE MatchFrom(_, _, _)
MatchFrom(p, i, d) ==
    IF i >= Len(p) THEN -1
    ELSE IF p[i + 1].op = "LoopStart" THEN MatchFrom(p, i + 1, d + 1)
    ELSE IF p[i + 1].op = "LoopEnd"
    THEN (IF d = 1 THEN i ELSE MatchFrom(p, i + 1, d - 1))
    ELSE MatchFrom(p, i + 1, d)

MatchEnd(p, s) == MatchFrom(p, s + 1, 1)

\* C6: a properly nested source compiles, and every LoopStart at index s has
\* exactly one LoopEnd, at e > s, with LoopStart's target e + 1 and LoopEnd's
\* target s + 1; e is the bracket that closes s, pairs never overlap and no
\* LoopStart keeps the placeholder 0.
C6_JumpTargets ==
    (pc # "compile" /\ ProperlyNested(file)) =>
        /\ pc = "compiled"
        /\ status = "running"
        /\ \A s \in 0..(Len(prog) - 1) :
              prog[s + 1].op = "LoopStart" =>
                  LET e == prog[s + 1].arg - 1
                  IN  /\ prog[s + 1].arg # 0
                      /\ e > s /\ e < Len(prog)
                      /\ e = MatchEnd(prog, s)
                      /\ prog[e + 1] = InstLoopEnd(s + 1)
                      /\ Cardinality({j \in 0..(Len(prog) - 1) :
                                        prog[j + 1] = InstLoopEnd(s + 1)}) = 1
                      /\ \A s2 \in (s + 1)..(e - 1) :
                            prog[s2 + 1].op = "LoopStart" => prog[s2 + 1].arg - 1 < e
        /\ \A e \in 0..(Len(prog) - 1) :
              prog[e + 1].op = "LoopEnd" =>
                  /\ prog[e + 1].arg - 1 \in 0..(e - 1)
                  /\ prog[prog[e + 1].arg] = InstLoopStart(e + 1)

\* C6 witness: a nested pair behind a folded run.
C6_Witness ==
    /\ pc = "compiled"
    /\ file = <<"+", "[", "[", "]", "]">>
    /\ prog = <<InstValInc(1), InstLoopStart(5), InstLoopStart(4), InstLoopEnd(3),
                InstLoopEnd(2)>>

\* ======================================================== pipeline claims
\* C1: for a well-formed source and any input, the Tree Interpreter on
\* o2::compile's tree writes the same output bytes as the flat interpreter on
\* o1::compile's instructions, step for step, and ends when it ends, as long as
\* the cursor stays inside the tape.
C1_RoundTrip ==
    (mode = "rt" /\ frun # "panic" /\ trun # "panic") =>
        /\ fout = tout
        /\ (frun = "done") <=> (trun = "done")

\* C1 witness: both interpreters have ended after a loop that ran twice, with
\* the byte it computed written.
C1_Witness ==
    /\ mode = "rt"
    /\ file = <<"+", "+", "[", ">", "+", "<", "-", "]", ">", ".">>
    /\ frun = "done" /\ trun = "done"
    /\ fout = <<2>> /\ tout = <<2>>

\* Two statement sequences of the same shape: as long, Loop for Loop, every
\* other statement equal.
RECURSIVE SameShape(_, _)
SameShape(a, b) ==
    /\ Len(a) = Len(b)
    /\ \A i \in 1..Len(a) :
          IF a[i].op = "Loop"
          THEN b[i].op = "Loop" /\ SameShape(a[i].body, b[i].body)
          ELSE b[i] = a[i]

\* C2: the tree optimize returns has the shape of its input: as many statements
\* at every level, every Loop still a Loop at its place, every other statement
\* unchanged.
C2_SameShape ==
    opt # NoTree => SameShape(stmts, opt)

\* C3: what optimize emits for a loop it does not rewrite behaves like the loop;
\* so the o2 pipeline on "cell0 = a, cell1 = b, [->+<]" ends with cell0 = 0 and
\* cell1 = (a + b) mod 256.
C3_MoveResult ==
    \A a \in 0..MaxA, b \in 0..MaxB :
        (mode = "o2" /\ file = MoveProg(a, b) /\ pc = "exit" /\ status = "ok") =>
            /\ Get(tmem, 0) = 0
            /\ Get(tmem, 1) = (a + b) % CellMod

\* What one iteration of a PtrInc/ValInc body does, summed directly: the net
\* cursor displacement, and the net change of the cell the loop tests.
RECURSIVE NetDisp(_)
NetDisp(body) ==
    IF body = <<>> THEN 0
    ELSE (IF Head(body).op = "PtrInc" THEN Head(body).n ELSE 0) + NetDisp(Tail(body))

RECURSIVE GateNet(_, _)
GateNet(body, at) ==
    IF body = <<>> THEN 0
    ELSE IF Head(body).op = "PtrInc" THEN GateNet(Tail(body), at + Head(body).n)
    ELSE (IF at = 0 THEN Head(body).n ELSE 0) + GateNet(Tail(body), at)

LoopFreePure(body) == \A i \in 1..Len(body) : body[i].op \in {"PtrInc", "ValInc"}

\* A loop that never ends once entered: pure, loop-free, no net displacement, no
\* net change of its gate cell.
DeadLoop(stmt) ==
    /\ stmt.op = "Loop"
    /\ LoopFreePure(stmt.body)
    /\ NetDisp(stmt.body) = 0
    /\ GateNet(stmt.body, 0) = 0

\* C7: optimize returns no tree when a loop it classifies is pure, loop-free,
\* without net displacement and without net change of its gate cell, the empty
\* body and the untouched gate cell included.
C7_Divergence ==
    opt # NoTree => \A i \in 1..Len(stmts) : ~DeadLoop(stmts[i])

\* The statement the Tree Interpreter is about to execute is an Output.
AtOutput ==
    /\ mode = "o2" /\ pc = "run" /\ trun = "running"
    /\ LET body == BodyAt(tprog, tpath)
       IN  tidx < Len(body) /\ body[tidx + 1].op = "Output"

\* C8: in a run of o2::main the bytes on standard output are the current-cell
\* bytes of the executed Output statements, in order, and no stage writes
\* anything else: the sink changes only by an Output statement appending its cell.
C8_OnlyOutput ==
    [][tout' # tout => (AtOutput /\ tout' = Append(tout, Get(tmem, tptr)))]_vars

\* The cell Input is to leave under the cursor: the k-th byte of standard input
\* for the k-th Input executed, 0 once the input is exhausted.
Expected(k) == IF k <= Len(stdin) THEN stdin[k] ELSE 0

\* The tape m2 is m with cell p set to v.
OnlyCell(m, m2, p, v) ==
    \A q \in DOMAIN m \cup DOMAIN m2 \cup {p} :
        Get(m2, q) = IF q = p THEN v ELSE Get(m, q)

FlatAtInput ==
    /\ mode = "o1" /\ pc = "run" /\ frun = "running"
    /\ fpc < Len(prog) /\ prog[fpc + 1].op = "Input"
    /\ InTape(fptr)

TreeAtInput ==
    /\ mode = "o2" /\ pc = "run" /\ trun = "running"
    /\ LET body == BodyAt(tprog, tpath)
       IN  tidx < Len(body) /\ body[tidx + 1].op = "Input"
    /\ InTape(tptr)

\* C9: in both interpreters the k-th executed Input stores the k-th input byte
\* in the current cell while bytes remain and 0 once the source is exhausted,
\* execution goes on, and neither another cell nor the cursor changes.
C9_Input ==
    [][/\ (FlatAtInput /\ steps' # steps) =>
            /\ fnin' = fnin + 1
            /\ OnlyCell(fmem, fmem', fptr, Expected(fnin + 1))
            /\ fptr' = fptr
            /\ frun' = "running" /\ fpc' = fpc + 1
       /\ (TreeAtInput /\ steps' # steps) =>
            /\ tnin' = tnin + 1
            /\ OnlyCell(tmem, tmem', tptr, Expected(tnin + 1))
            /\ tptr' = tptr
            /\ trun' = "running" /\ tidx' = tidx + 1 /\ tpath' = tpath
      ]_vars

\* C9 witness: the flat interpreter has read the one input byte and then, the
\* source exhausted, a 0, and has ended normally.
C9_Witness ==
    /\ mode = "o1"
    /\ file = <<",", ".", ",", ".">>
    /\ stdin = <<65>>
    /\ fnin = 2
    /\ fout = <<65, 0>>
    /\ status = "ok"

\* C10: with an unmatched '[' or ']' every entry point ends with the parse
\* error and nothing else happens, before or after: no instruction sequence
\* reaches the caller, no tree and no module is built, no instruction is
\* executed, no input is taken and no output is written.
C10_ParseErrorFirst ==
    ~ProperlyNested(file) =>
        /\ pc \in {"compile", "exit"}
        /\ pc = "exit" => status \in {"err_close", "err_open"}
        /\ prog = NoProg /\ stmts = NoTree /\ opt = NoTree /\ ir = NoModule
        /\ frun = "idle" /\ trun = "idle" /\ steps = 0
        /\ fnin = 0 /\ tnin = 0 /\ finput = <<>> /\ tinput = <<>>
        /\ fout = <<>> /\ tout = <<>>

\* C10 witness: llvm::main has returned the unmatched-'[' error.
C10_Witness ==
    /\ mode = "llvm"
    /\ file = <<"+", "[", ".">>
    /\ pc = "exit"
    /\ status = "err_open"

\* ========================================================= native code claims
\* The declaration of the external function `name` in module m.
DeclOf(m, name) == CHOOSE d \in {m.decls[i] : i \in 1..Len(m.decls)} : d.name = name

\* Every call instruction of module m.
Calls(m) ==
    {ins \in UNION {{m.blocks[b][i] : i \in 1..Len(m.blocks[b])} : b \in 1..Len(m.blocks)} :
        ins.op = "call"}

\* C11: every call of an external function in the generated module agrees with
\* its declaration in the number and the width of its arguments: calloc gets
\* its two arguments (count, size) against two declared parameters, putchar gets
\* a value as wide as its declared word-sized parameter, getchar gets none.
C11_CallsAgree ==
    ir # NoModule =>
        \A c \in Calls(ir) :
            LET d == DeclOf(ir, c.name)
            IN  /\ Len(c.args) = Len(d.params)
                /\ \A j \in 1..Len(c.args) : j <= Len(d.params) => c.args[j].ty = d.params[j]

\* C12: the stages run in the order assembler, tree builder, optimizer, backend:
\* the tree the Tree Interpreter is started on (o2::main) and the tree the
\* native code generator compiles (llvm::main) are both what o2::optimize
\* returned for the tree builder's tree.
C12_OptimizedTree ==
    /\ (mode = "o2" /\ trun # "idle") =>
           /\ opt # NoTree
           /\ opt = optimize(stmts).stmts
           /\ tprog = opt
    /\ (mode = "llvm" /\ ir # NoModule) =>
           /\ opt # NoTree
           /\ ir = CompilerCompile(optimize(stmts).stmts)

\* ========================================================= optimizer claims
\* A counted loop as the optimizer is to recognise it: pure and loop-free, no
\* net displacement, and the gate cell one less after every iteration.
Counted(body) ==
    /\ LoopFreePure(body)
    /\ NetDisp(body) = 0
    /\ GateNet(body, 0) = -1

\* optimize_loop announced the loop with this body.
Reported(body) == optimize_loop(body).out # <<>>

\* C13: optimize_loop reports a loop as counted exactly when its body is pure
\* and loop-free, its net displacement is 0 and its gate cell goes down by
\* exactly one per iteration (as in `[-]` and `[->+<]`); no other loop is
\* reported, so after the optimizer something has been printed exactly when
\* the tree holds such a loop.
C13_CountedLoop ==
    (mode = "o2" /\ pc = "optimized") =>
        /\ \A i \in 1..Len(stmts) :
              stmts[i].op = "Loop" => (Reported(stmts[i].body) <=> Counted(stmts[i].body))
        /\ (tout # <<>>) <=>
              (\E i \in 1..Len(stmts) : stmts[i].op = "Loop" /\ Counted(stmts[i].body))

\* Some ValInc of the body acts on the gate cell (relative offset 0).
RECURSIVE GateTouched(_, _)
GateTouched(body, at) ==
    IF body = <<>> THEN FALSE
    ELSE IF Head(body).op = "PtrInc" THEN GateTouched(Tail(body), at + Head(body).n)
    ELSE at = 0 \/ GateTouched(Tail(body), at)

\* The fatal shape: zero net displacement and a constant gate step of 0.
ZeroStep(stmt) ==
    /\ stmt.op = "Loop"
    /\ LoopFreePure(stmt.body)
    /\ NetDisp(stmt.body) = 0
    /\ GateTouched(stmt.body, 0)
    /\ GateNet(stmt.body, 0) = 0

\* The sequence p with the body of every Loop of p emitted in the Loop's place.
RECURSIVE Emitted(_)
Emitted(p) ==
    IF p = <<>> THEN <<>>
    ELSE (IF Head(p).op = "Loop" THEN Head(p).body ELSE <<Head(p)>>) \o Emitted(Tail(p))

\* C14: when no loop the optimizer classifies has zero net displacement and a
\* constant gate step of 0, optimize returns normally: a loop with non-zero
\* displacement, a step other than 1, an untouched gate cell, a nested loop or
\* an Output/Input in its body causes no failure, its body's statements are
\* emitted unchanged, and the statements after it are processed all the same.
C14_NonFatal ==
    (mode = "o2" /\ stmts # NoTree /\ pc # "built"
        /\ \A i \in 1..Len(stmts) : ~ZeroStep(stmts[i])) =>
            /\ status # "panic_diverge"
            /\ opt = Emitted(stmts)

\* C14 witness: a loop of step -1 has been emitted and the two statements
\* after it as well.
C14_Witness ==
    /\ mode = "o2" /\ pc = "optimized"
    /\ file = <<"+", "+", "[", ">", "+", "<", "-", "]", ">", ".">>
    /\ opt = <<StmtValInc(2), StmtPtrInc(1), StmtValInc(1), StmtPtrInc(-1), StmtValInc(-1),
               StmtPtrInc(1), StmtOutput>>

\* Every Loop statement of the tree p, at every nesting depth.
RECURSIVE Loops(_)
Loops(p) ==
    IF p = <<>> THEN {}
    ELSE (IF Head(p).op = "Loop" THEN {Head(p)} \cup Loops(Head(p).body) ELSE {})
         \cup Loops(Tail(p))

\* C15: optimize attempts classification for every Loop at every nesting depth:
\* a pure, loop-free loop nested inside another loop is classified exactly as
\* at top level, so the optimizer does not return a tree when some loop, at any
\* depth, has zero displacement and the constant gate step 0, and it has
\* reported something when some loop, at any depth, is one that optimize_loop
\* reports.
C15_EveryDepth ==
    (mode = "o2" /\ pc = "optimized") =>
        /\ \A l \in Loops(stmts) : ~ZeroStep(l)
        /\ (\E l \in Loops(stmts) : Reported(l.body)) => tout # <<>>

\* ======================================================== executable claims
\* The instruction the executable is about to execute.
NatIns == ir.blocks[nblk + 1][nidx + 1]

\* The executable is about to execute the store of an Input statement: the
\* instruction before it called getchar, and the cursor is inside the tape.
NatAtInputStore ==
    /\ mode = "nat" /\ pc = "run" /\ nrun = "running" /\ trun # "running"
    /\ nidx >= 1
    /\ NatIns.op = "store"
    /\ ir.blocks[nblk + 1][nidx].op = "call"
    /\ ir.blocks[nblk + 1][nidx].name = "getchar"
    /\ InTape(nslots[1])

\* C16: the code emitted for Input stores one byte, the low 8 bits of getchar's
\* result, at tape[cursor]; every other cell of the tape (tape[cursor+1] to
\* tape[cursor+3] in particular) and the cursor stay as they were.
C16_InputStore ==
    [][(NatAtInputStore /\ nsteps' # nsteps) =>
            /\ OnlyCell(nmem, nmem', nslots[1], nregs[ir.blocks[nblk + 1][nidx].dst] % CellMod)
            /\ nslots' = nslots
      ]_vars

\* No Output and no Input in the source.
IOFree(f) == \A i \in 1..Len(f) : f[i] \notin {".", ","}

\* The executable is about to execute the conditional branch of a loop header.
NatAtHeaderBranch ==
    /\ mode = "nat" /\ pc = "run" /\ nrun = "running" /\ trun # "running"
    /\ nsteps < MaxNatSteps
    /\ NatIns.op = "condbr"

\* C17: the cell a loop header tests is the one under the cursor as the block
\* control came from left it: the block before the loop on first arrival, the
\* end of the loop body on a back-edge, also with nested loops and with bodies
\* of non-zero displacement. So for a source without Output and Input on
\* which the Tree Interpreter ends normally, the executable ends too, with the
\* same tape and the same cursor.
C17_SameTapeCursor ==
    /\ NatAtHeaderBranch =>
           /\ nregs[NatIns.args[1].v - 2] = nslots[1]
           /\ InTape(nslots[1]) => nregs[NatIns.args[1].v] =
                                      (IF Get(nmem, nslots[1]) # 0 THEN 1 ELSE 0)
    /\ (mode = "nat" /\ IOFree(file) /\ trun = "done") =>
           /\ nrun # "crash"
           /\ nsteps < MaxNatSteps
           /\ nrun = "done" => (nmem = tmem /\ nslots[1] = tptr)

\* C17 witness: the executable has ended after a loop that holds a loop and
\* moves the cursor forth and back, where the Tree Interpreter ended.
C17_Witness ==
    /\ mode = "nat"
    /\ file = <<"+", "[", ">", "+", "[", "-", "]", "<", "-", "]">>
    /\ trun = "done" /\ nrun = "done"
    /\ nmem = tmem /\ nslots[1] = tptr

\* ===================================================== interpreter claims
\* The Tree Interpreter, next to the flat one, is about to take a step with the
\* cursor inside the tape.
TreeSteps == mode = "rt" /\ pc = "run" /\ trun = "running" /\ InTape(tptr)

\* It is about to execute a Loop statement.
TreeAtLoop ==
    /\ TreeSteps
    /\ LET body == BodyAt(tprog, tpath)
       IN  tidx < Len(body) /\ body[tidx + 1].op = "Loop"

\* It is at the end of the body of a Loop.
TreeAtBodyEnd ==
    /\ TreeSteps
    /\ tpath # <<>>
    /\ tidx = Len(BodyAt(tprog, tpath))

\* C18: the Tree Interpreter tests the current cell before every iteration of
\* a Loop, the first included: with the cell 0 on arrival the body is not
\* executed and nothing changes, and whenever execution goes on with the
\* statement after a Loop the cell under the cursor is 0.
C18_TestFirst ==
    [][/\ (TreeAtLoop /\ steps' # steps) =>
            /\ tmem' = tmem /\ tptr' = tptr /\ tout' = tout /\ tinput' = tinput
            /\ IF Get(tmem, tptr) = 0
               THEN tpath' = tpath /\ tidx' = tidx + 1
               ELSE tpath' = Append(tpath, tidx) /\ tidx' = 0
       /\ (TreeAtBodyEnd /\ steps' # steps) =>
            /\ tmem' = tmem /\ tptr' = tptr /\ tout' = tout /\ tinput' = tinput
            /\ IF Get(tmem, tptr) = 0
               THEN tpath' = SubSeq(tpath, 1, Len(tpath) - 1) /\ tidx' = tpath[Len(tpath)] + 1
               ELSE tpath' = tpath /\ tidx' = 0
       /\ ((TreeAtLoop \/ TreeAtBodyEnd) /\ steps' # steps /\ Len(tpath') <= Len(tpath)
             /\ ~(tpath' = tpath /\ tidx' = 0)) =>
            Get(tmem', tptr') = 0
      ]_vars

\* C18 witness: a loop whose body would move the cursor was reached with the
\* cell 0 and the run ended with the cursor where it was.
C18_Witness ==
    /\ mode = "rt"
    /\ file = <<"[", ">", "+", "]">>
    /\ trun = "done"
    /\ tptr = 0 /\ tmem = <<>> /\ tout = <<>>

\* ================================================== cell arithmetic claims
\* (c + d) mod 256, for every d of the i32 range.
Mod256Sum(c, d) == ((c % 256) + (d % 256)) % 256

\* Deltas at the ends of the i32 range and multiples of 256 near them.
ExtremeDeltas == {I32Max, I32Max - 1, I32Max - 127, I32Max - 255, 65536, -65536,
                  -I32Max + 255, -I32Max + 127, -I32Max, -I32Max - 1}

\* The constant operand of the add the code generator emits for ValInc(d).
NativeAddend(d) ==
    LET m == CompilerCompile(<<StmtValInc(d)>>)
        ins == CHOOSE x \in {m.blocks[1][i] : i \in 1..Len(m.blocks[1])} : x.op = "add"
    IN  ins.args[2]

\* The tape holds v in cell0, 1 in cell1 and 0 everywhere else.
ValTape(m, v) == m = Put(Put(<<>>, 1, 1), 0, v)

\* C19: for every folded delta d of the i32 range and every cell value c,
\* ValInc(d) leaves (c + d) mod 256 in the cell and changes no other cell, the
\* same in the flat interpreter, in the Tree Interpreter and in the generated
\* code (which adds d truncated to 8 bits); a run of 256 '+' leaves the cell
\* as it was.
C19_ValInc ==
    /\ \A d \in ExtremeDeltas \cup ValDeltas, c \in {0, 1, 127, 128, 255} :
          /\ wrapping_add_signed(c, d) = Mod256Sum(c, d)
          /\ (c + Val(<<>>, NativeAddend(d))) % CellMod = Mod256Sum(c, d)
    /\ \A pre \in ValPrefixes, d \in ValDeltas :
          file = ValFile(pre, d) =>
              LET c == IF pre = <<>> THEN 0 ELSE IF pre = <<"+">> THEN 1 ELSE 255
              IN  /\ frun = "done" => ValTape(fmem, Mod256Sum(c, d))
                  /\ trun = "done" => ValTape(tmem, Mod256Sum(c, d))
                  /\ nrun = "done" => ValTape(nmem, Mod256Sum(c, d))
                  /\ frun # "panic" /\ trun # "panic" /\ nrun # "crash"

\* C19 witness: after a '+' and a run of 256 '+' of its own, the executable
\* has ended with 1 in cell0, as the Tree Interpreter did.
C19_Witness ==
    /\ mode = "nat"
    /\ file = ValFile(<<"+">>, 256)
    /\ trun = "done" /\ nrun = "done"
    /\ ValTape(tmem, 1) /\ ValTape(nmem, 1)

\* ================================================== comment-byte claims
\* Folded instructions with the jump targets bracket matching asks for.
Patched(p) ==
    [i \in 1..Len(p) |->
        IF p[i].op = "LoopStart" THEN InstLoopStart(MatchEnd(p, i - 1) + 1)
        ELSE IF p[i].op = "LoopEnd"
        THEN InstLoopEnd((CHOOSE j \in 0..(i - 2) :
                              p[j + 1].op = "LoopStart" /\ MatchEnd(p, j) = i - 1) + 1)
        ELSE p[i]]

\* What assembling the symbols s alone gives: the error kind, or the
\* instruction sequence.
SymbolResult(s) ==
    IF CloseBeforeOpen(s) THEN [status |-> "err_close", prog |-> NoProg]
    ELSE IF ~ProperlyNested(s) THEN [status |-> "err_open", prog |-> NoProg]
    ELSE [status |-> "running", prog |-> Patched(Folded(s))]

\* o1::compile is about to take a byte that is none of the eight symbols.
AtOtherByte == pc = "compile" /\ pos < Len(file) /\ file[pos + 1] \notin Meaningful

\* C20: bytes other than the eight symbols have no effect on assembly: taking
\* one changes nothing of o1::compile's state (inside a run it does not end
\* the run), so what compile returns, instruction sequence or error kind, is
\* what the symbols of the source alone give, wherever such bytes are inserted
\* or deleted.
C20_CommentsIgnored ==
    [][/\ AtOtherByte =>
            /\ pos' = pos + 1
            /\ UNCHANGED <<cprog, state, stack, pc, status, prog>>
       /\ pc' # "compile" =>
            [status |-> status', prog |-> prog'] = SymbolResult(Symbols(file))
      ]_vars

\* C20 witness: a comment byte inside a run of '+' in front of a loop; the run
\* is one ValInc(2) and the jump targets are those of `++[]`.
C20_Witness ==
    /\ pc = "compiled"
    /\ file = <<"+", "x", "+", "[", "]">>
    /\ prog = <<InstValInc(2), InstLoopStart(3), InstLoopEnd(2)>>

\* ===================================================== tree builder claims
\* The tree written out flat again: a LoopStart before and a LoopEnd after the
\* body of each Loop, in order (jump targets left 0).
RECURSIVE Flatten(_)
Flatten(p) ==
    IF p = <<>> THEN <<>>
    ELSE LET stmt == Head(p)
         IN  (CASE stmt.op = "Loop" ->
                     <<InstLoopStart(0)>> \o Flatten(stmt.body) \o <<InstLoopEnd(0)>>
                [] stmt.op = "PtrInc" -> <<InstPtrInc(stmt.n)>>
                [] stmt.op = "ValInc" -> <<InstValInc(stmt.n)>>
                [] stmt.op = "Output" -> <<InstOutput>>
                [] OTHER -> <<InstInput>>)
             \o Flatten(Tail(p))

\* The number of Loop nodes of a tree.
RECURSIVE CountLoops(_)
CountLoops(p) ==
    IF p = <<>> THEN 0
    ELSE (IF Head(p).op = "Loop" THEN 1 + CountLoops(Head(p).body) ELSE 0)
         + CountLoops(Tail(p))

\* The nesting depth of every statement of a tree, in source order (a Loop
\* counts at the depth it stands at, its body one deeper).
RECURSIVE TreeDepths(_, _)
TreeDepths(p, d) ==
    IF p = <<>> THEN <<>>
    ELSE <<d>> \o (IF Head(p).op = "Loop" THEN TreeDepths(Head(p).body, d + 1) ELSE <<>>)
         \o TreeDepths(Tail(p), d)

\* The bracket depth of every instruction but the LoopEnds, in order (a
\* LoopStart counts at the depth outside its bracket).
RECURSIVE InstDepths(_, _)
InstDepths(p, d) ==
    IF p = <<>> THEN <<>>
    ELSE IF Head(p).op = "LoopStart" THEN <<d>> \o InstDepths(Tail(p), d + 1)
    ELSE IF Head(p).op = "LoopEnd" THEN InstDepths(Tail(p), d - 1)
    ELSE <<d>> \o InstDepths(Tail(p), d)

\* C21: for every instruction sequence o1::compile returned, o2::compile ends
\* having taken every instruction, and its tree flattens back (LoopStart before,
\* LoopEnd after each Loop body) to the same instruction kinds and deltas; it
\* holds as many Loop nodes as there are LoopStarts, and every statement's
\* nesting depth is the bracket depth of its instruction.
C21_TreeRoundTrip ==
    stmts # NoTree =>
        /\ compile_rec(prog, 0, <<>>).next = Len(prog)
        /\ Flatten(stmts) = NoTargets(prog)
        /\ CountLoops(stmts) = Count([i \in 1..Len(prog) |-> prog[i].op], {"LoopStart"})
        /\ TreeDepths(stmts, 0) = InstDepths(prog, 0)

\* C21 witness: a loop in a loop, with statements before, between and after.
C21_Witness ==
    /\ file = <<"+", "[", ">", "+", "[", "-", "]", "<", "-", "]">>
    /\ stmts = <<StmtValInc(1),
                 StmtLoop(<<StmtPtrInc(1), StmtValInc(1), StmtLoop(<<StmtValInc(-1)>>),
                            StmtPtrInc(-1), StmtValInc(-1)>>)>>

\* ================================================ naive interpreter claims
\* s is a prefix of t.
IsPrefix(s, t) == Len(s) <= Len(t) /\ SubSeq(t, 1, Len(s)) = s

\* s is a suffix of t.
IsSuffix(s, t) == Len(s) <= Len(t) /\ SubSeq(t, Len(t) - Len(s) + 1, Len(t)) = s

\* C22: for a properly nested source and an input on which the cursor does not
\* leave the tape (neither interpreter panics on it), o0::main and o1::main
\* write the same output bytes and take the same input bytes, in the same
\* order; one ends exactly when the other does, and then tape and cursor are
\* the same. (Turn for turn o1::main is ahead: one of its instructions stands
\* for a run of bytes.)
C22_SameRun ==
    (mode = "eq" /\ frun # "panic" /\ zrun # "panic") =>
        /\ zrun # "panic_pc"
        /\ IsPrefix(zout, fout)
        /\ IsSuffix(finput, zinput) /\ IsSuffix(zinput, stdin)
        /\ zrun = "done" => frun = "done"
        /\ (frun = "done" /\ steps <= MaxSteps /\ zsteps = MaxO0Steps) => zrun = "done"
        /\ (frun = "done" /\ zrun = "done") =>
               /\ fout = zout
               /\ finput = zinput
               /\ fmem = zmem
               /\ fptr = zptr

\* C22 witness: both have ended after a loop that printed and read twice,
\* around bytes that are no symbols, with both input bytes taken and printed.
C22_Witness ==
    /\ mode = "eq"
    /\ file = <<",", "x", "[", ".", "x", ",", "]">>
    /\ stdin = <<InByte(1), InByte(2)>>
    /\ frun = "done" /\ zrun = "done"
    /\ zinput = <<>>
    /\ zout = <<InByte(1), InByte(2)>>
    /\ fout = zout /\ fmem = zmem /\ fptr = zptr

\* ---------------------------------------------------------------- C23
\* The ValInc deltas of p that fall at relative offset off, in order, the
\* cursor standing at relative offset `at` before p.
RECURSIVE DeltasAt(_, _, _)
DeltasAt(p, at, off) ==
    IF p = <<>> THEN <<>>
    ELSE IF Head(p).op = "PtrInc" THEN DeltasAt(Tail(p), at + Head(p).n, off)
    ELSE IF Head(p).op = "ValInc" /\ at = off THEN <<Head(p).n>> \o DeltasAt(Tail(p), at, off)
    ELSE DeltasAt(Tail(p), at, off)

\* The relative offsets at which p adjusts a cell.
RECURSIVE Adjusted(_, _)
Adjusted(p, at) ==
    IF p = <<>> THEN {}
    ELSE IF Head(p).op = "PtrInc" THEN Adjusted(Tail(p), at + Head(p).n)
    ELSE IF Head(p).op = "ValInc" THEN {at} \cup Adjusted(Tail(p), at)
    ELSE Adjusted(Tail(p), at)

RECURSIVE SumLow(_)
SumLow(ds) == IF ds = <<>> THEN 0 ELSE (Head(ds) % 65536) + SumLow(Tail(ds))

RECURSIVE SumHigh(_)
SumHigh(ds) == IF ds = <<>> THEN 0 ELSE (Head(ds) \div 65536) + SumHigh(Tail(ds))

\* The sum of ds modulo 2^32 as an i32, from the sums of the 16-bit halves.
Sum32(ds) ==
    LET lo == SumLow(ds)
        hi == SumHigh(ds) + (lo \div 65536)
    IN  ((((hi % 65536) + 32768) % 65536) - 32768) * 65536 + (lo % 65536)

\* The statements symbolic_execution has taken.
Taken == SubSeq(sbody, 1, sidx)

\* C23: at every point of symbolic_execution of a loop body, every value of the
\* map is a Const, the wrapping 32-bit sum of the ValInc deltas applied at its
\* offset; the keys are the running PtrInc sums at which a ValInc was taken;
\* no todo!() of simplify is reached, and what optimize_loop gets is the map
\* and the cursor of the last turn.
C23_ConstMap ==
    mode = "sym" =>
        /\ srun # "todo"
        /\ sptr = NetDisp(Taken)
        /\ DOMAIN smap = Adjusted(Taken, 0)
        /\ \A off \in DOMAIN smap :
               /\ smap[off].tag = "Const"
               /\ smap[off].v = Sum32(DeltasAt(Taken, 0, off))
        /\ srun \in {"ok", "reported", "diverge"} =>
               /\ sidx = Len(sbody)
               /\ symbolic_execution(sbody)
                      = [ok |-> TRUE, ptr_delta |-> sptr, memory_delta |-> smap]
        /\ srun \in {"reported", "diverge"} =>
               /\ sptr = 0
               /\ 0 \in DOMAIN smap
               /\ smap[0].v = IF srun = "reported" THEN 1 ELSE 0
        /\ srun = "err" =>
               /\ sidx < Len(sbody)
               /\ sbody[sidx + 1].op \in {"Loop", "Output", "Input"}
               /\ ~symbolic_execution(sbody).ok

\* The sum at offset 0 passed the end of i32, next to an entry at offset 1.
C23_Witness ==
    /\ mode = "sym"
    /\ sbody = <<StmtValInc(I32Max), StmtPtrInc(0), StmtValInc(1), StmtPtrInc(1)>>
    /\ srun = "ok"
    /\ smap = [k \in {0} |-> Const(-I32Max - 1)]
    /\ sptr = 1

=============================================================================
